---- MODULE Spec2Model ----
(***************************************************************************)
(* Model of TBufferSQL2 (io/sql/src/TBufferSQL2.cxx): the buffer that      *)
(* converts objects to TSQLStructure trees (write) and reads them back     *)
(* from object data cursors (read).  The streamer of a class re-enters the *)
(* buffer once per member; the re-entrant call stack is the variable cs.   *)
(***************************************************************************)
EXTENDS Integers, Sequences, FiniteSets, TLC

\* ------------------------------------------------------------ bounds
NObj == 2          \* object addresses 1..NObj (0 is the null pointer)
MaxBase == 2       \* caller-supplied base ids 0..MaxBase

Addr == 1..NObj
Bases == 0..MaxBase

\* ------------------------------------------------------------ classes
\* Two classes handled by the streaming machinery:
\*   "A": streamed through its TStreamerInfo (ApplySequence), stored in a
\*        class table (column-mapped);
\*   "B": custom streamer calling the buffer directly, no class table
\*        (raw/blob storage).  It streams an Int_t, a member object in
\*        place (whose streamer reads its own version), a pointer and an
\*        Int_t array.
Classes == {"A", "B"}

\* the object at address 1 is an "A", the others are "B"
ClassOf(a) == IF a = 1 THEN "A" ELSE "B"

IsClassTableExist(cl) == cl \in {"A", "C"}

\* class version known to the class registry
GetClassVersion(cl) == IF cl = "A" THEN 3 ELSE 2

\* The calls a class streamer makes into the buffer, in order.
Script(cl) ==
  IF cl = "A"
  THEN << "Version", "IncrementLevel",
          "Element1", "Ptr1",
          "Element2", "Ptr2",
          "DecrementLevel" >>
  ELSE << "Version", "Int", "Version", "Ptr1", "FastArray" >>

\* number of the pointer member an op streams (0: not a pointer op)
PtrOf(op) == IF op = "Ptr1" THEN 1 ELSE IF op = "Ptr2" THEN 2 ELSE 0

NPtr(cl) == Cardinality({i \in 1..Len(Script(cl)) : PtrOf(Script(cl)[i]) > 0})

\* ------------------------------------------------------------ state
VARIABLES
  heap,               \* heap[a][f]: target of pointer member f of object a (-1: not yet fixed)
  store,              \* the tables: what TSQLFile holds for the key
  rheap,              \* instances created while reading: [cl, ptr]
  mode,               \* "write" / "read": TBuffer::EMode given to the constructor
  used,               \* TRUE once this buffer has served a top-level call
  nodes,              \* the TSQLStructure objects created by PushStack/Add...
  fStructure,         \* root structure (index into nodes, 0 = null)
  fStk,               \* current structure (index into nodes, 0 = null)
  fObjMap,            \* TExMap: [alloc, tab]; tab is a set of <<key, value>>
  fErrorFlag,
  fExpectedChain,
  fCompressLevel,
  fReadVersionBuffer,
  fObjIdCounter,
  fFirstObjId,
  fLastObjId,
  fIgnoreVerification,
  fCurrentData,       \* current TSQLObjectData (index into datas, 0 = null)
  datas,              \* the TSQLObjectData objects created so far
  fObjectsInfos,      \* list of TSQLObjectInfo, [alloc, list]
  fPoolsMap,          \* TMap sqlinfo -> TSQLObjectDataPool
  cs,                 \* call stack of buffer calls waiting for a streamer to return
  hist,               \* calls completed in the current pass (observation only)
  fNWorkers,          \* TMPWorker: number of workers of the pool (0: no pool)
  fFileNames,         \* TMPWorker: the files to process, [entries]
  fTree,              \* TMPWorker: the tree to process, [defined, entries, file]
  fS,                 \* fS[w]: socket of worker w, [open, sent]: the messages sent to the client
  fMaxNEntries,       \* fMaxNEntries[w]
  fProcessedEntries,  \* fProcessedEntries[w]
  fCanReduce,         \* fCanReduce[w]
  fReducedResult      \* fReducedResult[w]: number of results merged

envVars == << heap, store, rheap >>
cfgVars == << mode, used, fCompressLevel, fIgnoreVerification >>
treeVars == << nodes, fStructure, fStk >>
idVars == << fObjMap, fObjIdCounter, fFirstObjId, fLastObjId >>
flagVars == << fErrorFlag, fExpectedChain, fReadVersionBuffer >>
dataVars == << fCurrentData, datas, fObjectsInfos, fPoolsMap >>

workerVars == << fNWorkers, fFileNames, fTree, fS, fMaxNEntries, fProcessedEntries,
                 fCanReduce, fReducedResult >>

vars == << envVars, cfgVars, treeVars, idVars, flagVars, dataVars, cs, hist, workerVars >>

\* no worker pool beside the buffer
NoProcessor ==
  /\ fNWorkers = 0
  /\ fFileNames = << >>
  /\ fTree = [defined |-> FALSE, entries |-> 0, file |-> FALSE]
  /\ fS = << >>
  /\ fMaxNEntries = << >>
  /\ fProcessedEntries = << >>
  /\ fCanReduce = << >>
  /\ fReducedResult = << >>

\* ------------------------------------------------------------ helpers
Last(s) == s[Len(s)]
Front(s) == SubSeq(s, 1, Len(s) - 1)

\* The widths are scaled down: an Int_t has IntBits bits where the program
\* has 32, and a Long64_t holds every id of the model.
IntBits == 5

\* the largest Int_t, 2^31 - 1 in the program
kMaxInt == 2 ^ (IntBits - 1) - 1

\* value of a C++ Int_t that a Long64_t x is converted to: x modulo
\* 2^IntBits, in two's complement
Int_t(x) ==
  LET r == x % (2 ^ IntBits)
  IN IF r > kMaxInt THEN r - 2 ^ IntBits ELSE r

\* ---- TExMap
NullMap == [alloc |-> FALSE, tab |-> {}]

\* TExMap::GetValue: the value stored for key, 0 when there is none
ExMapGetValue(map, key) ==
  IF \E e \in map.tab : e[1] = key
  THEN (CHOOSE e \in map.tab : e[1] = key)[2]
  ELSE 0

\* TExMap::Add: a key already present is reported and left as it is
ExMapAdd(map, key, value) ==
  IF \E e \in map.tab : e[1] = key
  THEN map
  ELSE [alloc |-> TRUE, tab |-> map.tab \cup {<<key, value>>}]

\* ---- TSQLStructure
NewNode(parent) ==
  [type |-> "kSqlUnknown", parent |-> parent, value |-> 0,
   pointer |-> "", objdata |-> 0, index |-> << >>]

\* TSQLStructure::SetObjectRef / SetObjectPointer / SetStreamerInfo ...
SetType(n, t, v, p) == [n EXCEPT !.type = t, !.value = v, !.pointer = p]

\* TBufferSQL2::PopStack
PopStack(ns, stk) == IF stk = 0 THEN 0 ELSE ns[stk].parent

\* TBufferSQL2::Stack(depth)
RECURSIVE Stack(_, _, _)
Stack(ns, stk, depth) ==
  IF depth > 0 /\ stk # 0 THEN Stack(ns, ns[stk].parent, depth - 1) ELSE stk

\* fStructure after PushStack created node n under stk
PushStructure(structure, stk, n) == IF stk = 0 THEN n ELSE structure

\* faulty variant: a null object is looked up like any other
WriteFindObjId_nullLookedUp(map, obj, first) ==
  IF map.alloc /\ ExMapGetValue(map, obj) > 0
  THEN first + ExMapGetValue(map, obj) - 1
  ELSE -1

\* faulty variant: the registry value is taken for the distance from the base
\* although it is kept one higher
WriteFindObjId_offByOne(map, obj, first) ==
  IF obj = 0 THEN 0
  ELSE IF map.alloc /\ ExMapGetValue(map, obj) > 0
       THEN first + ExMapGetValue(map, obj) - 2
       ELSE -1

\* ---- SqlWriteObject, lines 350-362: id the object is already known under,
\* 0 for a null object, -1 when the object has to be written
WriteFindObjId(map, obj, first) ==
  IF obj = 0 THEN 0
  ELSE IF map.alloc /\ ExMapGetValue(map, obj) > 0
       THEN first + ExMapGetValue(map, obj) - 1
       ELSE -1

\* faulty variant: the new object is not registered
WriteRegister_skip(map, obj, objid, first) == [map EXCEPT !.alloc = TRUE]

\* line 379-380: registration of a newly written object
WriteRegister(map, obj, objid, first) ==
  IF ExMapGetValue(map, obj) = 0
  THEN ExMapAdd(map, obj, objid - first + 1)
  ELSE [map EXCEPT !.alloc = TRUE]

\* TSQLStructure::GetElement: set for element and custom-element nodes only
GetElement(ns, i) ==
  i # 0 /\ ns[i].type \in {"kSqlElement", "kSqlCustomElement"}

\* TSQLStructure::GetStreamerInfo: set for streamer-info nodes only
GetStreamerInfo(ns, i) ==
  IF i # 0 /\ ns[i].type = "kSqlStreamerInfo" THEN ns[i].pointer ELSE ""

\* positions of the completed calls of fn in the log of the pass
Recs(fn) == {i \in 1..Len(hist) : hist[i].fn = fn}

\* ------------------------------------------------------------ call stack
Top == cs[Len(cs)]

InStreamer == cs # << >>

\* the call the running streamer makes next ("return" when it is done)
CurOp ==
  IF Top.pc <= Len(Script(Top.cl)) THEN Script(Top.cl)[Top.pc] ELSE "return"

Advance(stack) == [stack EXCEPT ![Len(stack)].pc = @ + 1]

\* ------------------------------------------------------------ environment
\* the tables of one key: per object an info entry, a class table row and the
\* raw values; key is the id of the first object of the key (-1: no key),
\* root the address of the object the key was written from
EmptyStore == [key |-> -1, root |-> 0, infos |-> << >>, rows |-> << >>,
               blobs |-> << >>, damaged |-> FALSE, gone |-> {}, down |-> {}]

\* the objects the caller holds before any pointer member has been looked at
NoHeap == [a \in Addr |-> [f \in 1..2 |-> IF f <= NPtr(ClassOf(a)) THEN -1 ELSE 0]]

\* ------------------------------------------------------------ constructor
\* TBufferSQL2::TBufferSQL2(mode, file): a new buffer for one pass
NewBuffer(m, level) ==
  /\ cs = << >>
  /\ mode' = m
  /\ used' = FALSE
  /\ nodes' = << >>
  /\ fStructure' = 0
  /\ fStk' = 0
  /\ fObjMap' = NullMap
  /\ fErrorFlag' = 0
  /\ fExpectedChain' = FALSE
  /\ fCompressLevel' = level
  /\ fReadVersionBuffer' = -1
  /\ fObjIdCounter' = 1
  /\ fIgnoreVerification' = FALSE
  /\ fCurrentData' = 0
  /\ datas' = << >>
  /\ fObjectsInfos' = [alloc |-> FALSE, list |-> << >>]
  /\ fFirstObjId' = 0
  /\ fLastObjId' = 0
  /\ fPoolsMap' = {}
  /\ hist' = << >>
  /\ rheap' = << >>
  \* a write pass gets a new object graph and a new key, a read pass the
  \* tables as they are
  /\ IF m = "write"
     THEN /\ heap' = NoHeap
          /\ store' = EmptyStore
     ELSE UNCHANGED << heap, store >>
  /\ UNCHANGED << cs, workerVars >>

\* ------------------------------------------------------------ write pass
\* TBufferSQL2::SqlWriteObject up to the call of the streamer (or to its
\* return when the object is null or already known).  stk, structure, first
\* and counter are the values of the members when the call is made.
\* faulty variants: the counter is not advanced; it is advanced by two
NextObjId_same(counter) == counter
NextObjId_skip(counter) == counter + 2

\* objid = fObjIdCounter++ leaves the counter one higher
NextObjId(counter) == counter + 1

SqlWriteObject(obj0, cl, structure, first, counter, stack) ==
  LET obj == IF cl = "" THEN 0 ELSE obj0
      stk == fStk
      n == Len(nodes) + 1
      found == WriteFindObjId(fObjMap, obj, first)
      objid == counter
  IN IF found >= 0
     THEN \* known object or null: pointer node, no streamer
          /\ nodes' = Append(nodes, SetType(NewNode(stk), "kSqlPointer", found, ""))
          /\ fStructure' = PushStructure(structure, stk, n)
          /\ fStk' = PopStack(nodes', n)
          /\ fObjIdCounter' = counter
          /\ fObjMap' = fObjMap
          /\ cs' = stack
          /\ hist' = Append(hist, [fn |-> "SqlWriteObject", arg |-> obj0,
                                   obj |-> obj, cl |-> cl,
                                   ret |-> Int_t(found), objid |-> found, node |-> n,
                                   streamed |-> FALSE,
                                   stkIn |-> stk, stkOut |-> fStk',
                                   mapIn |-> fObjMap, mapOut |-> fObjMap',
                                   counterIn |-> counter, counterOut |-> counter,
                                   depth |-> Len(stack)])
     ELSE \* new object: object node, registration, streamer
          /\ nodes' = Append(nodes, SetType(NewNode(stk), "kSqlObject", objid, cl))
          /\ fStructure' = PushStructure(structure, stk, n)
          /\ fStk' = n
          /\ fObjIdCounter' = NextObjId(counter)
          /\ fObjMap' = WriteRegister(fObjMap, obj, objid, first)
          /\ cs' = Append(stack, [fn |-> "SqlWriteObject", arg |-> obj0,
                               obj |-> obj, cl |-> cl,
                               objid |-> objid, node |-> n, pc |-> 1,
                               stkIn |-> stk, mapIn |-> fObjMap,
                               counterIn |-> counter])
          /\ hist' = hist

\* TBufferSQL2::SqlWriteAny(obj, cl, objid)
SqlWriteAny(obj, cl, objid) ==
  /\ mode = "write"
  /\ cs = << >>
  /\ ~used
  /\ used' = TRUE
  /\ fErrorFlag' = 0
  /\ fFirstObjId' = objid
  /\ SqlWriteObject(obj, cl, 0, objid, objid, cs)
  /\ UNCHANGED << workerVars, heap, store, rheap, mode, fCompressLevel, fIgnoreVerification,
                  fExpectedChain, fReadVersionBuffer, fLastObjId, dataVars >>

\* return of TBufferSQL2::SqlWriteObject after the streamer came back
SqlWriteObjectReturn ==
  /\ InStreamer
  /\ Top.fn = "SqlWriteObject"
  /\ CurOp = "return"
  /\ fStk' = PopStack(nodes, fStk)
  /\ cs' = Front(cs)
  /\ hist' = Append(hist, [fn |-> "SqlWriteObject", arg |-> Top.arg,
                           obj |-> Top.obj, cl |-> Top.cl,
                           ret |-> Int_t(Top.objid), objid |-> Top.objid,
                           node |-> Top.node, streamed |-> TRUE,
                           stkIn |-> Top.stkIn, stkOut |-> fStk',
                           mapIn |-> Top.mapIn, mapOut |-> fObjMap,
                           counterIn |-> Top.counterIn, counterOut |-> fObjIdCounter,
                           depth |-> Len(cs) - 1])
  /\ UNCHANGED << workerVars, envVars, cfgVars, nodes, fStructure, idVars, flagVars, dataVars >>

\* TBufferSQL2::WriteObjectClass(actualObjStart, actualClass), called by the
\* streamer for pointer member f of the object it writes
WriteObjectClass(target) ==
  /\ InStreamer
  /\ mode = "write"
  /\ PtrOf(CurOp) > 0
  /\ LET f == PtrOf(CurOp)
         a == Top.obj
     IN /\ IF heap[a][f] = -1
           THEN heap' = [heap EXCEPT ![a][f] = target]
           ELSE target = heap[a][f] /\ heap' = heap
        /\ SqlWriteObject(target, IF target = 0 THEN "" ELSE ClassOf(target),
                          fStructure, fFirstObjId, fObjIdCounter, Advance(cs))
  /\ UNCHANGED << workerVars, store, rheap, cfgVars, flagVars, fFirstObjId, fLastObjId, dataVars >>

\* ------------------------------------------------------------ members
\* element an "ElementK" op announces (0: not an element op)
ElemOf(op) == IF op = "Element1" THEN 1 ELSE IF op = "Element2" THEN 2 ELSE 0

\* values of the basic members of an object
IntOf(a) == 10 + a
ArrayOf(a) == << a - 2, a - 2, 7 >>

\* ---- TSQLStructure, continued
\* TSQLStructure::GetObjectData(search)
RECURSIVE GetObjectData(_, _, _)
GetObjectData(ns, i, search) ==
  IF i = 0 THEN 0
  ELSE IF ns[i].objdata # 0 THEN ns[i].objdata
  ELSE IF search THEN GetObjectData(ns, ns[i].parent, search)
  ELSE 0

\* TSQLStructure::DefineObjectId(recursive): id of the enclosing object node
RECURSIVE DefineObjectId(_, _)
DefineObjectId(ns, i) ==
  IF i = 0 THEN -1
  ELSE IF ns[i].type \in {"kSqlObject", "kSqlPointer"} THEN ns[i].value
  ELSE DefineObjectId(ns, ns[i].parent)

\* TSQLStructure::AddVersion / AddValue: a child of node stk
ChildNode(stk, t, v, p, idx) ==
  [type |-> t, parent |-> stk, value |-> v, pointer |-> p, objdata |-> 0,
   index |-> idx]

\* children of node i, in the order they were added
Children(ns, i) == SelectSeq([k \in 1..Len(ns) |-> k], LAMBDA k : ns[k].parent = i)

\* ---- array content, SQLWriteArrayCompress / SQLWriteArrayNoncompress
\* faulty variant: every run ends after its first value
RunEnd_one(arr, curr, indx) == indx

\* end (exclusive) of the run of equal values that starts at curr
RECURSIVE RunEnd(_, _, _)
RunEnd(arr, curr, indx) ==
  IF indx <= Len(arr) /\ arr[indx] = arr[curr]
  THEN RunEnd(arr, curr, indx + 1)
  ELSE indx

\* the value nodes written for arr[indx..], C indices first..last of each
RECURSIVE SQLWriteArrayCompress(_, _, _)
SQLWriteArrayCompress(arr, indx, stk) ==
  IF indx > Len(arr) THEN << >>
  ELSE LET e == RunEnd(arr, indx, indx + 1)
       IN << ChildNode(stk, "kSqlValue", arr[indx], "Int", << indx - 1, e - 2 >>) >>
          \o SQLWriteArrayCompress(arr, e, stk)

\* faulty variant: equal neighbours share one value
SQLWriteArrayNoncompress_runs(arr, stk) == SQLWriteArrayCompress(arr, 1, stk)

SQLWriteArrayNoncompress(arr, stk) ==
  [i \in 1..Len(arr) |->
     ChildNode(stk, "kSqlValue", arr[i], "Int", << i - 1, i - 1 >>)]

\* SQLWriteArrayContent: the array node and its values
SQLWriteArrayContent(arr, stk, level, n) ==
  << SetType(NewNode(stk), "kSqlArray", -1, "") >>
  \o (IF level > 0
      THEN SQLWriteArrayCompress(arr, 1, n)
      ELSE SQLWriteArrayNoncompress(arr, n))

\* ------------------------------------------------------------ streamer calls, write
\* TBufferSQL2::WriteVersion(cl)
WriteVersion ==
  /\ InStreamer
  /\ mode = "write"
  /\ CurOp = "Version"
  /\ fStk # 0
  /\ nodes' = Append(nodes, ChildNode(fStk, "kSqlVersion", GetClassVersion(Top.cl),
                                      Top.cl, << >>))
  /\ cs' = Advance(cs)
  /\ UNCHANGED << workerVars, envVars, cfgVars, fStructure, fStk, idVars, flagVars, dataVars, hist >>

\* TBufferSQL2::WriteInt -> SqlWriteBasic(Int_t) -> SqlWriteValue
WriteInt ==
  /\ InStreamer
  /\ mode = "write"
  /\ CurOp = "Int"
  /\ fStk # 0
  /\ nodes' = Append(nodes, ChildNode(fStk, "kSqlValue", IntOf(Top.obj), "Int", << >>))
  /\ cs' = Advance(cs)
  /\ UNCHANGED << workerVars, envVars, cfgVars, fStructure, fStk, idVars, flagVars, dataVars, hist >>

\* TBufferSQL2::WriteFastArray(const Int_t*, n), outside a member chain
WriteFastArray ==
  /\ InStreamer
  /\ mode = "write"
  /\ CurOp = "FastArray"
  /\ ~GetElement(nodes, fStk)
  /\ ~fExpectedChain
  /\ LET n == Len(nodes) + 1
     IN /\ nodes' = nodes \o SQLWriteArrayContent(ArrayOf(Top.obj), fStk, fCompressLevel, n)
        /\ fStructure' = PushStructure(fStructure, fStk, n)
        /\ fStk' = PopStack(nodes', n)
        /\ hist' = Append(hist, [fn |-> "WriteFastArray", stkIn |-> fStk,
                                 stkOut |-> fStk', depth |-> Len(cs)])
  /\ cs' = Advance(cs)
  /\ UNCHANGED << workerVars, envVars, cfgVars, idVars, flagVars, dataVars >>

\* ------------------------------------------------------------ tables
\* Type tags of raw (blob) values, the sqlio:: names
\* "Version", "ObjectRef", "ObjectPtr", "ObjectInst", "Int", "Array", "CharStar"


\* raw values of the children of node i: what the node leaves in the raw table
RawOf(ns, i) ==
  LET kids == Children(ns, i)
      One(k) ==
        IF ns[k].type = "kSqlVersion"
        THEN << [type |-> "Version", value |-> ns[k].value, index |-> << >>] >>
        ELSE IF ns[k].type = "kSqlObject"
        THEN << [type |-> "ObjectRef", value |-> ns[k].value, index |-> << >>] >>
        ELSE IF ns[k].type = "kSqlPointer"
        THEN << [type |-> "ObjectPtr", value |-> ns[k].value, index |-> << >>] >>
        ELSE IF ns[k].type = "kSqlValue"
        THEN << [type |-> ns[k].pointer, value |-> ns[k].value, index |-> << >>] >>
        ELSE IF ns[k].type = "kSqlArray"
        THEN [j \in 1..Len(Children(ns, k)) |->
                [type |-> ns[Children(ns, k)[j]].pointer,
                 value |-> ns[Children(ns, k)[j]].value,
                 index |-> ns[Children(ns, k)[j]].index]]
        ELSE << >>
      RECURSIVE Cat(_)
      Cat(j) == IF j > Len(kids) THEN << >> ELSE One(kids[j]) \o Cat(j + 1)
  IN Cat(1)

\* columns of the class table row of object node i: one per member, the
\* id of the object the member points to
RowOf(ns, i) ==
  LET infos == SelectSeq(Children(ns, i), LAMBDA k : ns[k].type = "kSqlStreamerInfo")
      elems == IF infos = << >> THEN << >>
               ELSE SelectSeq(Children(ns, infos[1]),
                              LAMBDA k : ns[k].type \in {"kSqlElement", "kSqlCustomElement"})
  IN [j \in 1..Len(elems) |->
        LET c == Children(ns, elems[j])
        IN IF c = << >> THEN 0 ELSE ns[c[1]].value]

\* TSQLStructure::ConvertToTables: the rows a finished structure tree leaves
ConvertToTables(ns, first, root) ==
  LET objs == SelectSeq([k \in 1..Len(ns) |-> k], LAMBDA k : ns[k].type = "kSqlObject")
  IN [key |-> first, root |-> root, damaged |-> FALSE, gone |-> {}, down |-> {},
      infos |-> [j \in 1..Len(objs) |->
                   [objid |-> ns[objs[j]].value, cl |-> ns[objs[j]].pointer,
                    version |-> GetClassVersion(ns[objs[j]].pointer)]],
      rows |-> [j \in 1..Len(objs) |->
                   IF IsClassTableExist(ns[objs[j]].pointer)
                   THEN RowOf(ns, objs[j]) ELSE << >>],
      blobs |-> [j \in 1..Len(objs) |->
                   IF IsClassTableExist(ns[objs[j]].pointer)
                   THEN << >> ELSE RawOf(ns, objs[j])]]

\* position in the store of the entry of object objid (0: none)
StoreIndex(st, objid) ==
  IF \E j \in 1..Len(st.infos) : st.infos[j].objid = objid
  THEN CHOOSE j \in 1..Len(st.infos) : st.infos[j].objid = objid
  ELSE 0

\* TSQLFile::StoreObjectInTables after SqlWriteAny: the tree goes to the tables
StoreObjectInTables ==
  /\ mode = "write"
  /\ used
  /\ cs = << >>
  /\ fStructure # 0
  /\ store' = ConvertToTables(nodes, fFirstObjId, Last(hist).obj)
  /\ store' # store
  /\ UNCHANGED << workerVars, heap, rheap, cfgVars, treeVars, idVars, flagVars, dataVars, cs, hist >>

\* s without its element at position k
Drop(s, k) == SubSeq(s, 1, k - 1) \o SubSeq(s, k + 1, Len(s))

\* the tables change between the write and the read (a row deleted, a table
\* written by another layout of the class, a value set by another program):
\* at most once per key
Damage ==
  /\ cs = << >>
  /\ ~used
  /\ mode = "read"
  /\ ~store.damaged
  /\ \E j \in 1..Len(store.infos) :
       \/ \* the info entry of an object is gone
          store' = [store EXCEPT !.infos = Drop(@, j), !.rows = Drop(@, j),
                                 !.blobs = Drop(@, j), !.damaged = TRUE]
       \/ \* the raw data of an object is gone
          /\ store.blobs[j] # << >>
          /\ store' = [store EXCEPT !.blobs[j] = << >>, !.damaged = TRUE]
       \/ \* one raw value is gone
          \E k \in 1..Len(store.blobs[j]) :
            store' = [store EXCEPT !.blobs[j] = Drop(@, k), !.damaged = TRUE]
       \/ \* the class table row ends early
          \E k \in 1..Len(store.rows[j]) :
            store' = [store EXCEPT !.rows[j] = SubSeq(@, 1, k - 1), !.damaged = TRUE]
       \/ \* the row of the object is gone from its class table
          /\ IsClassTableExist(store.infos[j].cl)
          /\ store' = [store EXCEPT !.gone = {store.infos[j].objid}, !.damaged = TRUE]
       \/ \* the class table of the object cannot be queried any more
          /\ IsClassTableExist(store.infos[j].cl)
          /\ store' = [store EXCEPT !.down = {store.infos[j].cl}, !.damaged = TRUE]
       \/ \* the object was stored by the previous version of its class, which
          \* had the same members: only the object info tells (class table)
          /\ IsClassTableExist(store.infos[j].cl)
          /\ store' = [store EXCEPT !.infos[j].version = @ - 1, !.damaged = TRUE]
       \/ \* a reference of the object holds -1, the value SqlReadObject
          \* takes for "no object id": in a column or in a raw value
          \/ \E k \in 1..Len(store.rows[j]) :
               store' = [store EXCEPT !.rows[j][k] = -1, !.damaged = TRUE]
          \/ \E k \in 1..Len(store.blobs[j]) :
               /\ store.blobs[j][k].type \in {"ObjectPtr", "ObjectRef"}
               /\ store' = [store EXCEPT !.blobs[j][k].value = -1, !.damaged = TRUE]
  /\ UNCHANGED << workerVars, heap, rheap, cfgVars, treeVars, idVars, flagVars, dataVars, cs, hist >>

\* ---- TSQLObjectData
NewObjectData(objid, cl, row, raw) ==
  [objid |-> objid, cl |-> cl, row |-> row, raw |-> raw, blob |-> FALSE, pos |-> 1]

CurVals(d) == IF d.blob THEN d.raw ELSE d.row
IsBlobData(d) == d.blob
HasValue(d) == d.pos >= 1 /\ d.pos <= Len(CurVals(d))
\* columns hold plain values, raw entries hold [type, value, index]
GetValue(d) == IF d.blob THEN d.raw[d.pos].value ELSE d.row[d.pos]
VerifyDataType(d, tname) ==
  ~d.blob \/ (HasValue(d) /\ d.raw[d.pos].type = tname)
ShiftToNextValue(d) == [d EXCEPT !.pos = @ + 1]
\* TSQLObjectData::PrepareForRawData
CanPrepareForRawData(d) == d.raw # << >>
PrepareForRawData(d) == [d EXCEPT !.blob = TRUE, !.pos = 1]
\* TSQLObjectData::LocateColumn for member k of the class table
LocateColumn(d, k) == [d EXCEPT !.blob = FALSE, !.pos = k]

\* ------------------------------------------------------------ lookups
NoInfo == [ok |-> FALSE, cl |-> "", version |-> 0]

\* first list position n (1-based) whose entry has id objid, 0 if none
RECURSIVE ScanInfo(_, _, _)
ScanInfo(list, objid, n) ==
  IF n > Len(list) THEN 0
  ELSE IF list[n].objid = objid THEN n
  ELSE ScanInfo(list, objid, n + 1)

\* faulty variant: the version is the one the class has now
SqlObjectInfo_registryVersion(objid, infos, first) ==
  LET pos == ScanInfo(infos.list, objid, 1)
  IN IF objid < 0 \/ ~infos.alloc \/ pos = 0 THEN NoInfo
     ELSE [ok |-> TRUE, cl |-> infos.list[pos].cl,
           version |-> GetClassVersion(infos.list[pos].cl)]

\* faulty variant: no scan of the list when the position does not fit
SqlObjectInfo_noScan(objid, infos, first) ==
  IF objid < 0 \/ ~infos.alloc THEN NoInfo
  ELSE LET shift == objid - first
           fast == IF shift >= 0 /\ shift <= Len(infos.list) - 1
                      /\ infos.list[shift + 1].objid = objid
                   THEN shift + 1 ELSE 0
       IN IF fast = 0 THEN NoInfo
          ELSE [ok |-> TRUE, cl |-> infos.list[fast].cl,
                version |-> infos.list[fast].version]

\* TBufferSQL2::SqlObjectInfo(objid, clname, version)
SqlObjectInfo(objid, infos, first) ==
  IF objid < 0 \/ ~infos.alloc THEN NoInfo
  ELSE LET shift == objid - first
           fast == IF shift >= 0 /\ shift <= Len(infos.list) - 1
                      /\ infos.list[shift + 1].objid = objid
                   THEN shift + 1 ELSE 0
           pos == IF fast # 0 THEN fast ELSE ScanInfo(infos.list, objid, 1)
       IN IF pos = 0 THEN NoInfo
          ELSE [ok |-> TRUE, cl |-> infos.list[pos].cl,
                version |-> infos.list[pos].version]

\* TClass::GetClass(clname) # 0
GetClass(clname) == clname \in Classes

\* TSQLFile::FindSQLClassInfo(clname, version) # 0
FindSQLClassInfo(clname, version) ==
  /\ clname \in Classes
  /\ \/ version = GetClassVersion(clname)
     \/ \E j \in 1..Len(store.infos) :
          store.infos[j].cl = clname /\ store.infos[j].version = version

\* the pool of sqlinfo in the pools map (a set of pools), if any
PoolOf(pools, sqlinfo) == {q \in pools : q.key = sqlinfo}

\* faulty variant: the pool keeps the descriptor of class "A"
NewPool_firstInfo(sqlinfo, first, last) ==
  [key |-> sqlinfo, sqlinfo |-> "A", lo |-> first, hi |-> last]

\* new TSQLObjectDataPool(sqlinfo, alldata) as fPoolsMap->Add(sqlinfo, pool)
\* enters it: key is the key of the map, sqlinfo what GetSqlInfo returns
NewPool(sqlinfo, first, last) ==
  [key |-> sqlinfo, sqlinfo |-> sqlinfo, lo |-> first, hi |-> last]

\* TBufferSQL2::SqlObjectData(objid, sqlinfo): the new object data (index in
\* the returned datas, 0 for none) and the pools map afterwards
\* fetched tells whether GetNormalClassDataAll was called
SqlObjectData(objid, sqlinfo, ds, pools, first, last) ==
  LET have == PoolOf(pools, sqlinfo) # {}
      fetch == IsClassTableExist(sqlinfo) /\ ~have /\ last >= first
      \* alldata == 0: nothing is added to the pools map
      alldata == sqlinfo \notin store.down
      pools1 == IF fetch /\ alldata
                THEN pools \cup {NewPool(sqlinfo, first, last)}
                ELSE pools
      pool == PoolOf(pools1, sqlinfo)
      j == StoreIndex(store, objid)
      none == [data |-> 0, datas |-> ds, pools |-> pools1, fetched |-> fetch,
               mismatch |-> FALSE]
  IN IF IsClassTableExist(sqlinfo)
     THEN IF pool = {} THEN none
          ELSE LET q == CHOOSE x \in pool : TRUE
               IN IF q.sqlinfo # sqlinfo
                  THEN \* "Missmatch in pools map !!! CANNOT BE !!!"
                       [none EXCEPT !.mismatch = TRUE]
                  ELSE IF j = 0 \/ store.infos[j].cl # sqlinfo
                          \/ objid < q.lo \/ objid > q.hi
                          \/ objid \in store.gone
                  THEN none
                  ELSE [data |-> Len(ds) + 1,
                        datas |-> Append(ds, NewObjectData(objid, sqlinfo,
                                                 store.rows[j], store.blobs[j])),
                        pools |-> pools1, fetched |-> fetch, mismatch |-> FALSE]
     ELSE [data |-> Len(ds) + 1,
           datas |-> Append(ds, NewObjectData(objid, sqlinfo, << >>,
                                    IF j = 0 THEN << >> ELSE store.blobs[j])),
           pools |-> pools1, fetched |-> fetch, mismatch |-> FALSE]

\* TSQLStructure::AddObjectData
AddObjectData(ns, i, d) == [ns EXCEPT ![i].objdata = d]

\* faulty variant: a request without result leaves the flag alone
WorkWithClass_noFlag(classname, classversion, ns, stk, cur, ds, pools, flag, first, last) ==
  LET inst == cur # 0 /\ IsBlobData(ds[cur]) /\ VerifyDataType(ds[cur], "ObjectInst")
      objid == IF inst THEN GetValue(ds[cur]) ELSE DefineObjectId(ns, stk)
      ds1 == IF inst THEN [ds EXCEPT ![cur] = ShiftToNextValue(@)] ELSE ds
      ns1 == IF inst THEN [ns EXCEPT ![stk].value = objid] ELSE ns
      r == SqlObjectData(objid, classname, ds1, pools, first, last)
  IN IF objid < 0 \/ ~FindSQLClassInfo(classname, classversion)
     THEN [flag |-> 1, nodes |-> ns1, cur |-> cur, datas |-> ds1, pools |-> pools,
           objid |-> objid, request |-> FALSE, fetched |-> FALSE]
     ELSE IF r.data = 0
     THEN [flag |-> flag, nodes |-> ns1, cur |-> cur, datas |-> ds1, pools |-> r.pools,
           objid |-> objid, request |-> TRUE, fetched |-> r.fetched]
     ELSE [flag |-> flag, nodes |-> AddObjectData(ns1, stk, r.data), cur |-> r.data,
           datas |-> r.datas, pools |-> r.pools,
           objid |-> objid, request |-> TRUE, fetched |-> r.fetched]

\* TBufferSQL2::WorkWithClass(classname, classversion) when reading:
\* ns, stk are the tree and the current node after the caller's PushStack
WorkWithClass(classname, classversion, ns, stk, cur, ds, pools, flag, first, last) ==
  LET inst == cur # 0 /\ IsBlobData(ds[cur]) /\ VerifyDataType(ds[cur], "ObjectInst")
      objid == IF inst THEN GetValue(ds[cur]) ELSE DefineObjectId(ns, stk)
      ds1 == IF inst THEN [ds EXCEPT ![cur] = ShiftToNextValue(@)] ELSE ds
      ns1 == IF inst THEN [ns EXCEPT ![stk].value = objid] ELSE ns
      r == SqlObjectData(objid, classname, ds1, pools, first, last)
  IN IF objid < 0 \/ ~FindSQLClassInfo(classname, classversion)
     THEN [flag |-> 1, nodes |-> ns1, cur |-> cur, datas |-> ds1, pools |-> pools,
           objid |-> objid, request |-> FALSE, fetched |-> FALSE]
     ELSE IF r.data = 0
     THEN [flag |-> 1, nodes |-> ns1, cur |-> cur, datas |-> ds1, pools |-> r.pools,
           objid |-> objid, request |-> TRUE, fetched |-> r.fetched]
     ELSE [flag |-> flag, nodes |-> AddObjectData(ns1, stk, r.data), cur |-> r.data,
           datas |-> r.datas, pools |-> r.pools,
           objid |-> objid, request |-> TRUE, fetched |-> r.fetched]

\* TBufferSQL2::WorkWithElement(elem, comp_type): elem is member k of class cl
WorkWithElement(k, ns, stk, cur, ds, flag, reading) ==
  LET info == GetStreamerInfo(ns, Stack(ns, stk, 1))
      number == IF info # "" THEN k - 1 ELSE -1
      n == Len(ns) + 1
      ns1 == Append(ns, IF number >= 0
                        THEN SetType(NewNode(stk), "kSqlElement", number, "")
                        ELSE SetType(NewNode(stk), "kSqlCustomElement", k - 1, ""))
      cur1 == GetObjectData(ns1, n, TRUE)
      located == cur1 # 0 /\ k <= Len(ds[cur1].row)
  IN IF ~reading
     THEN [flag |-> flag, nodes |-> ns1, stk |-> n, cur |-> cur, datas |-> ds]
     ELSE IF cur = 0
     THEN [flag |-> 1, nodes |-> ns1, stk |-> n, cur |-> cur, datas |-> ds]
     ELSE IF ~located
     THEN [flag |-> 1, nodes |-> ns1, stk |-> n, cur |-> cur1, datas |-> ds]
     ELSE [flag |-> flag, nodes |-> ns1, stk |-> n, cur |-> cur1,
           datas |-> [ds EXCEPT ![cur1] = LocateColumn(@, k)]]

\* ------------------------------------------------------------ values, read
\* faulty variant: a read that finds the flag set clears it
SqlReadValue_clearsFlag(cur, ds, tname, flag, ignore) ==
  IF flag > 0
  THEN [ok |-> FALSE, value |-> 0, datas |-> ds, flag |-> 0]
  ELSE IF cur = 0
  THEN [ok |-> FALSE, value |-> 0, datas |-> ds, flag |-> 1]
  ELSE IF ~ignore /\ ~VerifyDataType(ds[cur], tname)
  THEN [ok |-> FALSE, value |-> 0, datas |-> ds, flag |-> 1]
  ELSE [ok |-> TRUE,
        value |-> IF HasValue(ds[cur]) THEN GetValue(ds[cur]) ELSE 0,
        datas |-> [ds EXCEPT ![cur] = ShiftToNextValue(@)],
        flag |-> flag]

\* faulty variant: a value of another type is refused but skipped
SqlReadValue_skipsRefused(cur, ds, tname, flag, ignore) ==
  IF flag > 0
  THEN [ok |-> FALSE, value |-> 0, datas |-> ds, flag |-> flag]
  ELSE IF cur = 0
  THEN [ok |-> FALSE, value |-> 0, datas |-> ds, flag |-> 1]
  ELSE IF ~ignore /\ ~VerifyDataType(ds[cur], tname)
  THEN [ok |-> FALSE, value |-> 0,
        datas |-> [ds EXCEPT ![cur] = ShiftToNextValue(@)], flag |-> 1]
  ELSE [ok |-> TRUE,
        value |-> IF HasValue(ds[cur]) THEN GetValue(ds[cur]) ELSE 0,
        datas |-> [ds EXCEPT ![cur] = ShiftToNextValue(@)],
        flag |-> flag]

\* TBufferSQL2::SqlReadValue(tname): ok is FALSE when it returns 0
SqlReadValue(cur, ds, tname, flag, ignore) ==
  IF flag > 0
  THEN [ok |-> FALSE, value |-> 0, datas |-> ds, flag |-> flag]
  ELSE IF cur = 0
  THEN [ok |-> FALSE, value |-> 0, datas |-> ds, flag |-> 1]
  ELSE IF ~ignore /\ ~VerifyDataType(ds[cur], tname)
  THEN [ok |-> FALSE, value |-> 0, datas |-> ds, flag |-> 1]
  ELSE [ok |-> TRUE,
        value |-> IF HasValue(ds[cur]) THEN GetValue(ds[cur]) ELSE 0,
        datas |-> [ds EXCEPT ![cur] = ShiftToNextValue(@)],
        flag |-> flag]

\* faulty variant: the value of a run reaches its first index only
Fill_first(arr, from, to, v) ==
  [i \in 1..Len(arr) |-> IF i - 1 = from THEN v ELSE arr[i]]

\* arr with the C indices from..to set to v
Fill(arr, from, to, v) ==
  [i \in 1..Len(arr) |-> IF i - 1 >= from /\ i - 1 <= to THEN v ELSE arr[i]]

\* faulty variant: a run may end beyond the array
BadTag_noBound(first, last, indx, arrsize) == first # indx \/ last < first

\* SQLReadArrayCompress: (first!=indx) || (last<first) || (last>=arrsize)
BadTag(first, last, indx, arrsize) ==
  first # indx \/ last < first \/ last >= arrsize

\* SQLReadArrayCompress(vname, arrsize): indx is the C index reached;
\* g is what first/last hold when the name of the value has no index
RECURSIVE SQLReadArrayCompress(_, _, _, _, _, _, _)
SQLReadArrayCompress(cur, ds, arr, indx, flag, ignore, g) ==
  IF indx >= Len(arr)
  THEN [datas |-> ds, arr |-> arr, flag |-> flag, indx |-> indx]
  ELSE LET d == ds[cur]
           idx == IF HasValue(d) /\ d.raw[d.pos].index # << >>
                  THEN d.raw[d.pos].index ELSE g
           first == idx[1]
           last == idx[2]
           rv == SqlReadValue(cur, ds, "Int", flag, ignore)
       IN IF BadTag(first, last, indx, Len(arr))
          THEN [datas |-> ds, arr |-> arr, flag |-> 1, indx |-> indx]
          ELSE SQLReadArrayCompress(cur, rv.datas,
                                    Fill(arr, first, last, IF rv.ok THEN rv.value ELSE 0),
                                    last + 1, rv.flag, ignore, g)

\* SQLReadArrayUncompress(vname, arrsize)
RECURSIVE SQLReadArrayUncompress(_, _, _, _, _, _)
SQLReadArrayUncompress(cur, ds, arr, indx, flag, ignore) ==
  IF indx >= Len(arr)
  THEN [datas |-> ds, arr |-> arr, flag |-> flag, indx |-> indx]
  ELSE LET rv == SqlReadValue(cur, ds, "Int", flag, ignore)
       IN SQLReadArrayUncompress(cur, rv.datas,
                                 Fill(arr, indx, indx, IF rv.ok THEN rv.value ELSE 0),
                                 indx + 1, rv.flag, ignore)

\* SQLReadArrayContent(vname, arrsize, withsize) between its PushStack and
\* its PopStack: raw data carry index tags, column data do not
SQLReadArrayContent(cur, ds, arr, flag, ignore, g) ==
  IF IsBlobData(ds[cur])
  THEN SQLReadArrayCompress(cur, ds, arr, 0, flag, ignore, g)
  ELSE SQLReadArrayUncompress(cur, ds, arr, 0, flag, ignore)

\* ------------------------------------------------------------ streamer calls, both modes
\* TBufferSQL2::IncrementLevel(info), info the TStreamerInfo of the class
IncrementLevel ==
  /\ InStreamer
  /\ CurOp = "IncrementLevel"
  /\ LET n == Len(nodes) + 1
         ns == Append(nodes, SetType(NewNode(fStk), "kSqlStreamerInfo", 0, Top.cl))
         \* the streamer info of the version the streamer read, when reading
         version == IF mode = "read" THEN rheap[Top.inst].version
                    ELSE GetClassVersion(Top.cl)
         w == WorkWithClass(Top.cl, version, ns, n, fCurrentData,
                            datas, fPoolsMap, fErrorFlag, fFirstObjId, fLastObjId)
     IN /\ fStructure' = PushStructure(fStructure, fStk, n)
        /\ fStk' = n
        /\ fExpectedChain' = FALSE
        /\ IF mode = "read"
           THEN /\ nodes' = w.nodes
                /\ fErrorFlag' = w.flag
                /\ fCurrentData' = w.cur
                /\ datas' = w.datas
                /\ fPoolsMap' = w.pools
                /\ hist' = Append(hist, [fn |-> "WorkWithClass", cl |-> Top.cl,
                                         version |-> version, objid |-> w.objid,
                                         request |-> w.request, fetched |-> w.fetched,
                                         flagIn |-> fErrorFlag, flagOut |-> w.flag,
                                         curIn |-> fCurrentData, curOut |-> w.cur,
                                         datasIn |-> datas, datasOut |-> w.datas,
                                         poolsIn |-> fPoolsMap, poolsOut |-> w.pools,
                                         objdata |-> w.nodes[n].objdata,
                                         depth |-> Len(cs)])
           ELSE /\ nodes' = ns
                /\ UNCHANGED << fErrorFlag, fCurrentData, datas, fPoolsMap, hist >>
  /\ cs' = Advance(cs)
  /\ UNCHANGED << workerVars, envVars, cfgVars, idVars, fReadVersionBuffer, fObjectsInfos >>

\* TBufferSQL2::SetStreamerElementNumber(elem, comp_type) for an object
\* pointer member (elem_type is not a basic type: no chain expected)
SetStreamerElementNumber ==
  /\ InStreamer
  /\ ElemOf(CurOp) > 0
  /\ LET stk1 == IF GetElement(nodes, fStk) THEN PopStack(nodes, fStk) ELSE fStk
         w == WorkWithElement(ElemOf(CurOp), nodes, stk1, fCurrentData, datas,
                              fErrorFlag, mode = "read")
     IN IF GetStreamerInfo(nodes, stk1) = ""
        THEN \* "Error in structures stack": returns, the flag is not set
             /\ fStk' = stk1
             /\ UNCHANGED << nodes, fStructure, flagVars, fCurrentData, datas >>
        ELSE /\ nodes' = w.nodes
             /\ fStructure' = PushStructure(fStructure, stk1, w.stk)
             /\ fStk' = w.stk
             /\ fExpectedChain' = FALSE
             /\ fErrorFlag' = w.flag
             /\ fCurrentData' = w.cur
             /\ datas' = w.datas
             /\ UNCHANGED fReadVersionBuffer
  /\ cs' = Advance(cs)
  /\ UNCHANGED << workerVars, envVars, cfgVars, idVars, fObjectsInfos, fPoolsMap, hist >>

\* TBufferSQL2::DecrementLevel(info)
DecrementLevel ==
  /\ InStreamer
  /\ CurOp = "DecrementLevel"
  /\ fStk # 0
  /\ LET stk1 == IF GetElement(nodes, fStk) THEN PopStack(nodes, fStk) ELSE fStk
         stk2 == PopStack(nodes, stk1)
     IN /\ stk2 # 0
        /\ fStk' = stk2
        /\ fCurrentData' = GetObjectData(nodes, stk2, TRUE)
  /\ fExpectedChain' = FALSE
  /\ cs' = Advance(cs)
  /\ UNCHANGED << workerVars, envVars, cfgVars, nodes, fStructure, idVars, fErrorFlag,
                  fReadVersionBuffer, datas, fObjectsInfos, fPoolsMap, hist >>

\* ------------------------------------------------------------ streamer calls, read
\* the streamer stores a value it read into the instance it fills
StorePtr(rh, dest, val) ==
  IF dest.inst = 0 THEN rh ELSE [rh EXCEPT ![dest.inst].ptr[dest.f] = val]

NewInstance(cl) == [cl |-> cl, ptr |-> << 0, 0 >>, version |-> -1, ival |-> -1,
                    arr |-> << -1, -1, -1 >>]

\* faulty variant: the buffered version is returned and stays buffered
ReadVersionResult_keepsBuffer(rvb, cur, ds, flag) ==
  IF rvb >= 0
  THEN [res |-> rvb, rvb |-> rvb, datas |-> ds, flag |-> flag]
  ELSE IF cur # 0 /\ IsBlobData(ds[cur]) /\ VerifyDataType(ds[cur], "Version")
  THEN [res |-> GetValue(ds[cur]), rvb |-> rvb,
        datas |-> [ds EXCEPT ![cur] = ShiftToNextValue(@)], flag |-> flag]
  ELSE [res |-> 0, rvb |-> rvb, datas |-> ds, flag |-> 1]

\* TBufferSQL2::ReadVersion: the result and the members afterwards
ReadVersionResult(rvb, cur, ds, flag) ==
  IF rvb >= 0
  THEN [res |-> rvb, rvb |-> -1, datas |-> ds, flag |-> flag]
  ELSE IF cur # 0 /\ IsBlobData(ds[cur]) /\ VerifyDataType(ds[cur], "Version")
  THEN [res |-> GetValue(ds[cur]), rvb |-> rvb,
        datas |-> [ds EXCEPT ![cur] = ShiftToNextValue(@)], flag |-> flag]
  ELSE [res |-> 0, rvb |-> rvb, datas |-> ds, flag |-> 1]

\* TBufferSQL2::ReadVersion
ReadVersion ==
  /\ InStreamer
  /\ mode = "read"
  /\ CurOp = "Version"
  /\ LET r == ReadVersionResult(fReadVersionBuffer, fCurrentData, datas, fErrorFlag)
     IN /\ fReadVersionBuffer' = r.rvb
        /\ datas' = r.datas
        /\ fErrorFlag' = r.flag
        /\ rheap' = [rheap EXCEPT ![Top.inst].version = r.res]
        /\ hist' = Append(hist, [fn |-> "ReadVersion", ret |-> r.res,
                                 inst |-> Top.inst, cl |-> Top.cl, objid |-> Top.objid,
                                 rvbIn |-> fReadVersionBuffer, rvbOut |-> r.rvb,
                                 curIn |-> fCurrentData,
                                 flagIn |-> fErrorFlag, flagOut |-> r.flag,
                                 datasIn |-> datas, datasOut |-> datas', depth |-> Len(cs)])
  /\ cs' = Advance(cs)
  /\ UNCHANGED << workerVars, heap, store, cfgVars, treeVars, idVars, fExpectedChain,
                  fCurrentData, fObjectsInfos, fPoolsMap >>

\* TBufferSQL2::ReadInt -> SqlReadBasic(Int_t&)
ReadInt ==
  /\ InStreamer
  /\ mode = "read"
  /\ CurOp = "Int"
  /\ LET rv == SqlReadValue(fCurrentData, datas, "Int", fErrorFlag, fIgnoreVerification)
         res == IF rv.ok THEN rv.value ELSE 0
     IN /\ datas' = rv.datas
        /\ fErrorFlag' = rv.flag
        /\ rheap' = [rheap EXCEPT ![Top.inst].ival = res]
        /\ hist' = Append(hist, [fn |-> "SqlReadBasic", ret |-> res, ok |-> rv.ok,
                                 flagIn |-> fErrorFlag, flagOut |-> rv.flag,
                                 curIn |-> fCurrentData,
                                 ignore |-> fIgnoreVerification, datasIn |-> datas,
                                 datasOut |-> datas', depth |-> Len(cs)])
  /\ cs' = Advance(cs)
  /\ UNCHANGED << workerVars, heap, store, cfgVars, treeVars, idVars, fExpectedChain,
                  fReadVersionBuffer, fCurrentData, fObjectsInfos, fPoolsMap >>

\* TBufferSQL2::ReadFastArray(Int_t*, n), outside a member chain
ReadFastArray(g) ==
  /\ InStreamer
  /\ mode = "read"
  /\ CurOp = "FastArray"
  /\ ~GetElement(nodes, fStk)
  /\ ~fExpectedChain
  /\ fCurrentData # 0
  /\ LET n == Len(nodes) + 1
         arr == rheap[Top.inst].arr
         r == SQLReadArrayContent(fCurrentData, datas, arr, fErrorFlag,
                                  fIgnoreVerification, g)
     IN /\ nodes' = Append(nodes, SetType(NewNode(fStk), "kSqlArray", -1, ""))
        /\ fStructure' = PushStructure(fStructure, fStk, n)
        /\ fStk' = PopStack(nodes', n)
        /\ datas' = r.datas
        /\ fErrorFlag' = r.flag
        /\ rheap' = [rheap EXCEPT ![Top.inst].arr = r.arr]
        /\ hist' = Append(hist, [fn |-> "ReadFastArray", stkIn |-> fStk,
                                 stkOut |-> fStk', flagIn |-> fErrorFlag,
                                 datasIn |-> datas, datasOut |-> datas',
                                 depth |-> Len(cs)])
  /\ cs' = Advance(cs)
  /\ UNCHANGED << workerVars, heap, store, cfgVars, idVars, fExpectedChain, fReadVersionBuffer,
                  fCurrentData, fObjectsInfos, fPoolsMap >>

\* ------------------------------------------------------------ read pass
\* faulty variant: the instance is not registered before its streamer runs
ReadRegister_skip(map, objid, inst, first) == map

\* SqlReadObjectDirect: fObjMap->Add(objid - fFirstObjId, obj)
ReadRegister(map, objid, inst, first) == ExMapAdd(map, objid - first, inst)

\* TBufferSQL2::SqlReadObjectDirect(obj, cl, objid) up to the call of the
\* streamer, or to its return on the early-exit paths.  first, last, infos,
\* cur, ds, flag are the members' values when the call is made; stack is the
\* call stack of the caller and dest the place the caller stores the result.
SqlReadObjectDirect(obj, objid, first, last, infos, cur, ds, flag, rvb, stack, dest, via) ==
  LET oi == SqlObjectInfo(objid, infos, first)
      inst == IF obj = 0 THEN Len(rheap) + 1 ELSE obj
      rh1 == IF obj = 0 THEN Append(rheap, NewInstance(oi.cl)) ELSE rheap
      n == Len(nodes) + 1
      ns == Append(nodes, SetType(NewNode(fStk), "kSqlObject", objid, oi.cl))
      r == SqlObjectData(objid, oi.cl, ds, fPoolsMap, first, last)
      \* which lookup failed: the object info, the class, the table descriptor
      lookup == IF ~oi.ok THEN "info" ELSE IF ~GetClass(oi.cl) THEN "class" ELSE "sqlinfo"
      Done(ret, stkOut, mapOut, curOut, dsOut, flagOut, fail) ==
        [fn |-> "SqlReadObjectDirect", via |-> via, objid |-> objid, ret |-> ret,
         streamed |-> FALSE, fail |-> fail, stkIn |-> fStk, stkOut |-> stkOut,
         mapIn |-> fObjMap, mapOut |-> mapOut, curIn |-> cur, curOut |-> curOut,
         datasIn |-> datas, datasOut |-> dsOut,
         flagIn |-> flag, flagOut |-> flagOut, depth |-> Len(stack)]
  IN IF ~oi.ok \/ ~GetClass(oi.cl) \/ ~FindSQLClassInfo(oi.cl, oi.version)
     THEN \* no object info, or class not known: returns obj
          /\ rheap' = StorePtr(rheap, dest, obj)
          /\ UNCHANGED << fObjMap, treeVars, fPoolsMap >>
          /\ fReadVersionBuffer' = rvb
          /\ fErrorFlag' = flag
          /\ fCurrentData' = cur
          /\ datas' = ds
          /\ cs' = stack
          /\ hist' = Append(hist, Done(obj, fStk, fObjMap, cur, ds, flag, lookup))
     ELSE IF IsClassTableExist(oi.cl)
     THEN \* the version is left for the streamer's ReadVersion
          /\ rheap' = rh1
          /\ fObjMap' = ReadRegister(fObjMap, objid, inst, first)
          /\ nodes' = ns
          /\ fStructure' = PushStructure(fStructure, fStk, n)
          /\ fStk' = n
          /\ fReadVersionBuffer' = oi.version
          /\ fErrorFlag' = flag
          /\ fCurrentData' = cur
          /\ datas' = ds
          /\ UNCHANGED fPoolsMap
          /\ cs' = Append(stack, [fn |-> "SqlReadObjectDirect", via |-> via,
                                  inst |-> inst, cl |-> oi.cl, objid |-> objid,
                                  node |-> n, pc |-> 1, stkIn |-> fStk,
                                  olddata |-> cur, dest |-> dest,
                                  mapIn |-> fObjMap, datasIn |-> datas, flagIn |-> flag])
          /\ hist' = hist
     ELSE IF r.data = 0 \/ ~CanPrepareForRawData(r.datas[r.data])
     THEN \* "No found raw data": flag set, returns obj; the frame stays
          /\ rheap' = StorePtr(rh1, dest, inst)
          /\ fObjMap' = ReadRegister(fObjMap, objid, inst, first)
          /\ nodes' = ns
          /\ fStructure' = PushStructure(fStructure, fStk, n)
          /\ fStk' = n
          /\ fReadVersionBuffer' = rvb
          /\ fErrorFlag' = 1
          /\ fCurrentData' = cur
          /\ datas' = r.datas
          /\ fPoolsMap' = r.pools
          /\ cs' = stack
          /\ hist' = Append(hist, Done(inst, n, fObjMap', cur, r.datas, 1, "raw"))
     ELSE /\ rheap' = rh1
          /\ fObjMap' = ReadRegister(fObjMap, objid, inst, first)
          /\ nodes' = AddObjectData(ns, n, r.data)
          /\ fStructure' = PushStructure(fStructure, fStk, n)
          /\ fStk' = n
          /\ fReadVersionBuffer' = rvb
          /\ fErrorFlag' = flag
          /\ fCurrentData' = r.data
          /\ datas' = [r.datas EXCEPT ![r.data] = PrepareForRawData(@)]
          /\ fPoolsMap' = r.pools
          /\ cs' = Append(stack, [fn |-> "SqlReadObjectDirect", via |-> via,
                                  inst |-> inst, cl |-> oi.cl, objid |-> objid,
                                  node |-> n, pc |-> 1, stkIn |-> fStk,
                                  olddata |-> cur, dest |-> dest,
                                  mapIn |-> fObjMap, datasIn |-> datas, flagIn |-> flag])
          /\ hist' = hist

\* faulty variant: the cursor of the object that was read stays current
RestoreData_keep(olddata, cur) == cur

\* line 545, fCurrentData = olddata: the cursor after the streamer came back
RestoreData(olddata, cur) == olddata

\* return of SqlReadObjectDirect after the streamer came back
SqlReadObjectDirectReturn ==
  /\ InStreamer
  /\ Top.fn = "SqlReadObjectDirect"
  /\ CurOp = "return"
  /\ fStk' = PopStack(nodes, fStk)
  /\ fCurrentData' = RestoreData(Top.olddata, fCurrentData)
  /\ rheap' = StorePtr(rheap, Top.dest, Top.inst)
  /\ cs' = Front(cs)
  /\ hist' = Append(hist, [fn |-> "SqlReadObjectDirect", via |-> Top.via,
                           objid |-> Top.objid, ret |-> Top.inst, streamed |-> TRUE,
                           fail |-> "",
                           stkIn |-> Top.stkIn, stkOut |-> fStk',
                           mapIn |-> Top.mapIn, mapOut |-> fObjMap,
                           curIn |-> Top.olddata, curOut |-> fCurrentData',
                           datasIn |-> Top.datasIn, datasOut |-> datas,
                           flagIn |-> Top.flagIn, flagOut |-> fErrorFlag,
                           depth |-> Len(cs) - 1])
  /\ UNCHANGED << workerVars, heap, store, cfgVars, nodes, fStructure, idVars, flagVars,
                  datas, fObjectsInfos, fPoolsMap >>

\* TBufferSQL2::SqlReadAny(keyid, objid, cl, obj)
SqlReadAny(objid) ==
  /\ mode = "read"
  /\ cs = << >>
  /\ ~used
  /\ store.key >= 0 => objid = store.key
  /\ used' = TRUE
  /\ LET infos == [alloc |-> store.infos # << >>, list |-> store.infos]
         last == IF infos.alloc THEN Last(infos.list).objid ELSE objid
     IN /\ fObjectsInfos' = infos
        /\ fFirstObjId' = objid
        /\ fLastObjId' = last
        /\ SqlReadObjectDirect(0, objid, objid, last, infos, 0, datas, 0, -1, cs,
                               [inst |-> 0, f |-> 0], "SqlReadAny")
  /\ fExpectedChain' = fExpectedChain
  /\ UNCHANGED << workerVars, heap, store, mode, fCompressLevel, fIgnoreVerification, fObjIdCounter >>

\* faulty variant: the registry is not asked
FindPtr_noRegistry(d, objid, obj, map, first) ==
  IF ~(~IsBlobData(d) \/ VerifyDataType(d, "ObjectPtr"))
  THEN [findptr |-> FALSE, obj |-> obj]
  ELSE IF objid = 0 THEN [findptr |-> TRUE, obj |-> 0]
  ELSE IF objid = -1 THEN [findptr |-> TRUE, obj |-> obj]
  ELSE [findptr |-> FALSE, obj |-> obj]

\* faulty variant: value 0 is looked up in the registry like an object id
FindPtr_zeroLookedUp(d, objid, obj, map, first) ==
  LET obj1 == IF map.alloc /\ objid >= first
              THEN ExMapGetValue(map, objid - first) ELSE 0
  IN IF ~(~IsBlobData(d) \/ VerifyDataType(d, "ObjectPtr"))
     THEN [findptr |-> FALSE, obj |-> obj]
     ELSE IF objid = -1 THEN [findptr |-> TRUE, obj |-> obj]
     ELSE IF obj1 # 0 THEN [findptr |-> TRUE, obj |-> obj1]
     ELSE [findptr |-> FALSE, obj |-> obj]

\* faulty variant: a known id is found but the caller's obj is returned
FindPtr_callerObj(d, objid, obj, map, first) ==
  LET obj1 == IF map.alloc /\ objid >= first
              THEN ExMapGetValue(map, objid - first) ELSE 0
  IN IF ~(~IsBlobData(d) \/ VerifyDataType(d, "ObjectPtr"))
     THEN [findptr |-> FALSE, obj |-> obj]
     ELSE IF objid = 0 THEN [findptr |-> TRUE, obj |-> 0]
     ELSE IF objid = -1 THEN [findptr |-> TRUE, obj |-> obj]
     ELSE IF obj1 # 0 THEN [findptr |-> TRUE, obj |-> obj]
     ELSE [findptr |-> FALSE, obj |-> obj]

\* SqlReadObject, the search for a pointer already known: the value is a
\* pointer when it comes from a column or carries the ObjectPtr tag
FindPtr(d, objid, obj, map, first) ==
  LET obj1 == IF map.alloc /\ objid >= first
              THEN ExMapGetValue(map, objid - first) ELSE 0
  IN IF ~(~IsBlobData(d) \/ VerifyDataType(d, "ObjectPtr"))
     THEN [findptr |-> FALSE, obj |-> obj]
     ELSE IF objid = 0 THEN [findptr |-> TRUE, obj |-> 0]
     ELSE IF objid = -1 THEN [findptr |-> TRUE, obj |-> obj]
     ELSE IF obj1 # 0 THEN [findptr |-> TRUE, obj |-> obj1]
     ELSE [findptr |-> FALSE, obj |-> obj]

\* TBufferSQL2::ReadObjectAny(cl) -> SqlReadObject(0), called by the streamer
\* for pointer member f of the instance it fills
ReadObjectAny ==
  /\ InStreamer
  /\ mode = "read"
  /\ PtrOf(CurOp) > 0
  /\ fErrorFlag > 0 \/ fCurrentData # 0
  /\ LET obj == 0
         dest == [inst |-> Top.inst, f |-> PtrOf(CurOp)]
         d == datas[fCurrentData]
         objid == GetValue(d)
         shifted == [datas EXCEPT ![fCurrentData] = ShiftToNextValue(@)]
         fp == FindPtr(d, objid, obj, fObjMap, fFirstObjId)
         findptr == fp.findptr
         found == fp.obj
         token == IF fCurrentData # 0 /\ HasValue(d) THEN objid ELSE -9
         Done(ret, dsOut, flagOut) ==
           [fn |-> "SqlReadObject", token |-> token, ret |-> ret, direct |-> FALSE,
            blob |-> IF fCurrentData # 0 THEN IsBlobData(datas[fCurrentData]) ELSE FALSE,
            tag |-> IF fCurrentData # 0 /\ IsBlobData(d) /\ HasValue(d)
                    THEN d.raw[d.pos].type ELSE "",
            mapIn |-> fObjMap, mapOut |-> fObjMap, stkIn |-> fStk, stkOut |-> fStk,
            curIn |-> fCurrentData, datasIn |-> datas, datasOut |-> dsOut,
            instIn |-> Len(rheap), instOut |-> Len(rheap'),
            flagIn |-> fErrorFlag, flagOut |-> flagOut, depth |-> Len(cs)]
         Return(ret, dsOut, flagOut) ==
           /\ rheap' = StorePtr(rheap, dest, ret)
           /\ datas' = dsOut
           /\ fErrorFlag' = flagOut
           /\ cs' = Advance(cs)
           /\ hist' = Append(hist, Done(ret, dsOut, flagOut))
           /\ UNCHANGED << fObjMap, treeVars, fReadVersionBuffer, fCurrentData, fPoolsMap >>
     IN IF fErrorFlag > 0
        THEN Return(obj, datas, fErrorFlag)
        ELSE IF ~HasValue(d)
        THEN \* "Invalid object reference value"
             Return(obj, datas, 1)
        ELSE IF findptr
        THEN Return(found, shifted, fErrorFlag)
        ELSE IF IsBlobData(d) /\ ~VerifyDataType(d, "ObjectRef")
        THEN \* "Object reference or pointer is not found in blob data"
             Return(obj, datas, 1)
        ELSE SqlReadObjectDirect(obj, objid, fFirstObjId, fLastObjId, fObjectsInfos,
                                 fCurrentData, shifted, fErrorFlag, fReadVersionBuffer,
                                 Advance(cs), dest, "SqlReadObject")
  /\ UNCHANGED << workerVars, heap, store, cfgVars, fObjIdCounter, fFirstObjId, fLastObjId,
                  fExpectedChain, fObjectsInfos >>

\* ------------------------------------------------------------ specification
TypeOK ==
  /\ mode \in {"write", "read"}
  /\ fErrorFlag \in {0, 1}
  /\ fStk \in 0..Len(nodes)
  /\ fCurrentData \in 0..Len(datas)

Init ==
  /\ heap = NoHeap
  /\ NoProcessor
  /\ store = EmptyStore
  /\ rheap = << >>
  /\ mode \in {"write", "read"}
  /\ used = FALSE
  /\ nodes = << >>
  /\ fStructure = 0
  /\ fStk = 0
  /\ fObjMap = NullMap
  /\ fErrorFlag = 0
  /\ fExpectedChain = FALSE
  /\ fCompressLevel \in {0, 1}
  /\ fReadVersionBuffer = -1
  /\ fObjIdCounter = 1
  /\ fFirstObjId = 0
  /\ fLastObjId = 0
  /\ fIgnoreVerification = FALSE
  /\ fCurrentData = 0
  /\ datas = << >>
  /\ fObjectsInfos = [alloc |-> FALSE, list |-> << >>]
  /\ fPoolsMap = {}
  /\ cs = << >>
  /\ hist = << >>

Next ==
  \/ \E m \in {"write", "read"}, level \in {0, 1} : NewBuffer(m, level)
  \/ \E obj \in 0..NObj, objid \in Bases :
       SqlWriteAny(obj, IF obj = 0 THEN "" ELSE ClassOf(obj), objid)
  \/ \E obj \in Addr, objid \in Bases : SqlWriteAny(obj, "", objid)
  \/ \E target \in 0..NObj : WriteObjectClass(target)
  \/ SqlWriteObjectReturn
  \/ WriteVersion
  \/ WriteInt
  \/ WriteFastArray
  \/ IncrementLevel
  \/ SetStreamerElementNumber
  \/ DecrementLevel
  \/ StoreObjectInTables
  \/ Damage
  \/ \E objid \in Bases : SqlReadAny(objid)
  \/ ReadVersion
  \/ ReadInt
  \/ \E g \in {<< 0, 0 >>} : ReadFastArray(g)
  \/ ReadObjectAny
  \/ SqlReadObjectDirectReturn

Spec == Init /\ [][Next]_vars

\* ------------------------------------------------------------ the array calls alone
\* One array of Int_t goes through SQLWriteArrayContent inside the streamer
\* of an object with raw storage, its values go to the tables, and a reading
\* buffer takes them back with SQLReadArrayContent.
MaxLen == 3
MaxVal == 2

\* the sequences over S of length n or less
RECURSIVE SeqsOf(_, _)
SeqsOf(S, n) ==
  IF n = 0 THEN {<< >>}
  ELSE LET P == SeqsOf(S, n - 1)
       IN P \cup {Append(q, v) : q \in {x \in P : Len(x) = n - 1}, v \in S}

Arrays == SeqsOf(1..MaxVal, MaxLen) \cup {<< 1, 1, 1, 2, 2, 3 >>}

\* the index pairs a value name can carry, and what first and last can hold
\* when the name carries none
Tags == (0..MaxLen) \X (0..MaxLen)

\* the object node SqlWriteObject / SqlReadObjectDirect leave on the stack
ArrObject == SetType(NewNode(0), "kSqlObject", 1, "B")

ArrInit ==
  /\ heap = NoHeap
  /\ NoProcessor
  /\ store = EmptyStore
  /\ rheap = << >>
  /\ mode = "write"
  /\ used = TRUE
  /\ nodes = << ArrObject >>
  /\ fStructure = 1
  /\ fStk = 1
  /\ fObjMap = NullMap
  /\ fErrorFlag = 0
  /\ fExpectedChain = FALSE
  /\ fCompressLevel \in {0, 1}
  /\ fReadVersionBuffer = -1
  /\ fObjIdCounter = 2
  /\ fFirstObjId = 1
  /\ fLastObjId = 1
  /\ fIgnoreVerification = FALSE
  /\ fCurrentData = 0
  /\ datas = << >>
  /\ fObjectsInfos = [alloc |-> FALSE, list |-> << >>]
  /\ fPoolsMap = {}
  /\ cs = << >>
  /\ \E A \in Arrays : hist = << [fn |-> "array", arr |-> A] >>

\* SQLWriteArrayContent(vname, arrsize, kFALSE) for the array of the pass
ArrWrite ==
  /\ mode = "write"
  /\ Len(hist) = 1
  /\ LET A == hist[1].arr
         n == Len(nodes) + 1
     IN /\ nodes' = nodes \o SQLWriteArrayContent(A, fStk, fCompressLevel, n)
        /\ fStructure' = PushStructure(fStructure, fStk, n)
        /\ fStk' = PopStack(nodes', n)
        /\ hist' = Append(hist, [fn |-> "SQLWriteArrayContent", arr |-> A,
                                 level |-> fCompressLevel,
                                 stkIn |-> fStk, stkOut |-> fStk',
                                 emitted |-> SubSeq(nodes', n + 1, Len(nodes'))])
  /\ UNCHANGED << workerVars, envVars, cfgVars, idVars, flagVars, dataVars, cs >>

\* the tree of the pass goes to the tables
ArrStore ==
  /\ mode = "write"
  /\ Len(hist) = 2
  /\ store.key < 0
  /\ store' = ConvertToTables(nodes, fFirstObjId, 1)
  /\ UNCHANGED << workerVars, heap, rheap, cfgVars, treeVars, idVars, flagVars, dataVars, cs, hist >>

\* the stored values change before they are read: a name gets another index
\* pair or loses it, or a value is gone
ArrTamper ==
  /\ mode = "write"
  /\ store.key >= 0
  /\ ~store.damaged
  /\ \E k \in 1..Len(store.blobs[1]) :
       \/ \E t \in Tags \cup {<< >>} :
            /\ t # store.blobs[1][k].index
            /\ store' = [store EXCEPT !.blobs[1][k].index = t, !.damaged = TRUE]
       \/ store' = [store EXCEPT !.blobs[1] = Drop(@, k), !.damaged = TRUE]
  /\ UNCHANGED << workerVars, heap, rheap, cfgVars, treeVars, idVars, flagVars, dataVars, cs, hist >>

\* the values as columns of a row: what the tables hold when every value
\* stands for one index
ArrRow == [k \in 1..Len(store.blobs[1]) |-> store.blobs[1][k].value]

\* a reading buffer inside the streamer of the object, its data cursor on
\* the first value: on raw data (cols FALSE) or on columns (cols TRUE)
ArrOpen(cols) ==
  /\ mode = "write"
  /\ store.key >= 0
  /\ cols => /\ ~store.damaged
             /\ \A k \in 1..Len(store.blobs[1]) :
                  store.blobs[1][k].index = << k - 1, k - 1 >>
  /\ mode' = "read"
  /\ nodes' = << ArrObject >>
  /\ fStructure' = 1
  /\ fStk' = 1
  /\ fErrorFlag' = 0
  /\ datas' = << IF cols
                 THEN LocateColumn(NewObjectData(1, "B", ArrRow, << >>), 1)
                 ELSE PrepareForRawData(NewObjectData(1, "B", << >>, store.blobs[1])) >>
  /\ fCurrentData' = 1
  /\ rheap' = << [NewInstance("B") EXCEPT !.arr = [i \in 1..Len(hist[1].arr) |-> -1]] >>
  /\ UNCHANGED << workerVars, heap, store, used, fCompressLevel, fIgnoreVerification, idVars,
                  fExpectedChain, fReadVersionBuffer, fObjectsInfos, fPoolsMap, cs, hist >>

\* SQLReadArrayContent(vname, arrsize, kFALSE) into the array of the instance
ArrRead(g) ==
  /\ mode = "read"
  /\ Len(hist) = 2
  /\ LET n == Len(nodes) + 1
         arr == rheap[1].arr
         r == SQLReadArrayContent(fCurrentData, datas, arr, fErrorFlag,
                                  fIgnoreVerification, g)
     IN /\ nodes' = Append(nodes, SetType(NewNode(fStk), "kSqlArray", -1, ""))
        /\ fStructure' = PushStructure(fStructure, fStk, n)
        /\ fStk' = PopStack(nodes', n)
        /\ datas' = r.datas
        /\ fErrorFlag' = r.flag
        /\ rheap' = [rheap EXCEPT ![1].arr = r.arr]
        /\ hist' = Append(hist, [fn |-> "SQLReadArrayContent",
                                 arrIn |-> arr, arrOut |-> r.arr,
                                 flagIn |-> fErrorFlag, flagOut |-> r.flag,
                                 stkIn |-> fStk, stkOut |-> fStk',
                                 dataIn |-> datas[fCurrentData],
                                 dataOut |-> r.datas[fCurrentData]])
  /\ UNCHANGED << workerVars, heap, store, cfgVars, idVars, fExpectedChain, fReadVersionBuffer,
                  fCurrentData, fObjectsInfos, fPoolsMap, cs >>

ArrNext ==
  \/ ArrWrite
  \/ ArrStore
  \/ ArrTamper
  \/ \E cols \in BOOLEAN : ArrOpen(cols)
  \/ \E g \in Tags : ArrRead(g)

ArraySpec == ArrInit /\ [][ArrNext]_vars

\* ------------------------------------------------------------ the requests for object data alone
\* A reading buffer after SqlReadAny set its id range, and the requests
\* SqlObjectData gets in the pass, in any order and for any id and class.
MaxReq == 3

\* the tables of a key with NObj objects of any classes: some class table
\* rows may be gone, the class table may refuse the query
PoolStores ==
  {[key |-> 1, root |-> 1, damaged |-> FALSE,
    infos |-> [j \in 1..NObj |-> [objid |-> j, cl |-> c[j],
                                  version |-> GetClassVersion(c[j])]],
    rows |-> [j \in 1..NObj |-> IF IsClassTableExist(c[j]) THEN << 0, 0 >> ELSE << >>],
    blobs |-> [j \in 1..NObj |-> << >>],
    gone |-> g, down |-> d] :
   c \in [1..NObj -> Classes],
   g \in SUBSET (1..NObj),
   d \in SUBSET {cl \in Classes : IsClassTableExist(cl)}}

PoolInit ==
  /\ heap = NoHeap
  /\ NoProcessor
  /\ store \in PoolStores
  /\ rheap = << >>
  /\ mode = "read"
  /\ used = TRUE
  /\ nodes = << >>
  /\ fStructure = 0
  /\ fStk = 0
  /\ fObjMap = NullMap
  /\ fErrorFlag = 0
  /\ fExpectedChain = FALSE
  /\ fCompressLevel = 0
  /\ fReadVersionBuffer = -1
  /\ fObjIdCounter = 1
  /\ fFirstObjId = 1
  /\ fLastObjId = NObj
  /\ fIgnoreVerification = FALSE
  /\ fCurrentData = 0
  /\ datas = << >>
  /\ fObjectsInfos = [alloc |-> TRUE, list |-> store.infos]
  /\ fPoolsMap = {}
  /\ cs = << >>
  /\ hist = << >>

\* TBufferSQL2::SqlObjectData(objid, sqlinfo) called in the pass
PoolRequest(objid, sqlinfo) ==
  /\ Len(hist) < MaxReq
  /\ LET r == SqlObjectData(objid, sqlinfo, datas, fPoolsMap, fFirstObjId, fLastObjId)
     IN /\ datas' = r.datas
        /\ fPoolsMap' = r.pools
        /\ hist' = Append(hist, [fn |-> "SqlObjectData", objid |-> objid,
                                 sqlinfo |-> sqlinfo, data |-> r.data,
                                 fetched |-> r.fetched, mismatch |-> r.mismatch,
                                 poolsIn |-> fPoolsMap, poolsOut |-> r.pools,
                                 datasIn |-> datas, datasOut |-> r.datas])
  /\ UNCHANGED << workerVars, envVars, cfgVars, treeVars, idVars, flagVars, fCurrentData,
                  fObjectsInfos, cs >>

\* the descriptors a request can name: those of the classes of the stored
\* objects, and that of a class with a table of its own and no object in
\* the key
Descriptors == Classes \cup {"C"}

PoolNext == \E objid \in 1..NObj, sqlinfo \in Descriptors : PoolRequest(objid, sqlinfo)

PoolSpec == PoolInit /\ [][PoolNext]_vars

\* ------------------------------------------------------------ the frame stack alone
\* A writing buffer and a streamer that makes the calls that push and pop
\* frames in any order, as many pops as it likes.
MaxOps == 4

StkInit ==
  /\ heap = NoHeap
  /\ NoProcessor
  /\ store = EmptyStore
  /\ rheap = << >>
  /\ mode = "write"
  /\ used = TRUE
  /\ nodes = << >>
  /\ fStructure = 0
  /\ fStk = 0
  /\ fObjMap = NullMap
  /\ fErrorFlag = 0
  /\ fExpectedChain = FALSE
  /\ fCompressLevel = 0
  /\ fReadVersionBuffer = -1
  /\ fObjIdCounter = 1
  /\ fFirstObjId = 1
  /\ fLastObjId = 0
  /\ fIgnoreVerification = FALSE
  /\ fCurrentData = 0
  /\ datas = << >>
  /\ fObjectsInfos = [alloc |-> FALSE, list |-> << >>]
  /\ fPoolsMap = {}
  /\ cs = << >>
  /\ hist = << >>

\* the log entry of a call that worked on the frame stack
StkRec(fn, pushed) ==
  [fn |-> fn, pushed |-> pushed, stkIn |-> fStk, stkOut |-> fStk',
   flagIn |-> fErrorFlag, flagOut |-> fErrorFlag']

\* SqlWriteObject: PushStack()->SetObjectRef(objid, cl) before the streamer
StkPushObject ==
  /\ Len(hist) < MaxOps
  /\ nodes' = Append(nodes, SetType(NewNode(fStk), "kSqlObject", Len(nodes) + 1, "B"))
  /\ fStructure' = PushStructure(fStructure, fStk, Len(nodes) + 1)
  /\ fStk' = Len(nodes) + 1
  /\ UNCHANGED << workerVars, envVars, cfgVars, idVars, flagVars, dataVars, cs >>
  /\ hist' = Append(hist, StkRec("PushStack", TRUE))

\* IncrementLevel(info) when writing: info = 0 returns at once
StkIncrementLevel(info) ==
  /\ Len(hist) < MaxOps
  /\ IF info = 0
     THEN UNCHANGED << treeVars, fExpectedChain >>
     ELSE /\ nodes' = Append(nodes, SetType(NewNode(fStk), "kSqlStreamerInfo", 0, "A"))
          /\ fStructure' = PushStructure(fStructure, fStk, Len(nodes) + 1)
          /\ fStk' = Len(nodes) + 1
          /\ fExpectedChain' = FALSE
  /\ UNCHANGED << workerVars, envVars, cfgVars, idVars, fErrorFlag, fReadVersionBuffer, dataVars, cs >>
  /\ hist' = Append(hist, StkRec("IncrementLevel", info # 0))

\* SetStreamerElementNumber(elem, comp_type) when writing, for a member that
\* is no basic type, where it dereferences no null frame
StkSetStreamerElementNumber ==
  /\ Len(hist) < MaxOps
  /\ fStk # 0
  /\ LET stk1 == IF GetElement(nodes, fStk) THEN PopStack(nodes, fStk) ELSE fStk
         w == WorkWithElement(1, nodes, stk1, fCurrentData, datas, fErrorFlag, FALSE)
     IN /\ stk1 # 0
        /\ IF GetStreamerInfo(nodes, stk1) = ""
           THEN \* "Error in structures stack"
                /\ fStk' = stk1
                /\ UNCHANGED << nodes, fStructure, fExpectedChain >>
           ELSE /\ Stack(nodes, stk1, 1) # 0
                /\ nodes' = w.nodes
                /\ fStructure' = PushStructure(fStructure, stk1, w.stk)
                /\ fStk' = w.stk
                /\ fExpectedChain' = FALSE
  /\ UNCHANGED << workerVars, envVars, cfgVars, idVars, fErrorFlag, fReadVersionBuffer, dataVars, cs >>
  /\ hist' = Append(hist, StkRec("SetStreamerElementNumber", Len(nodes') > Len(nodes)))

\* DecrementLevel(info) where it dereferences no null frame
StkDecrementLevel ==
  /\ Len(hist) < MaxOps
  /\ fStk # 0
  /\ LET stk1 == IF GetElement(nodes, fStk) THEN PopStack(nodes, fStk) ELSE fStk
         stk2 == PopStack(nodes, stk1)
     IN /\ stk2 # 0
        /\ fStk' = stk2
        /\ fCurrentData' = GetObjectData(nodes, stk2, TRUE)
  /\ fExpectedChain' = FALSE
  /\ UNCHANGED << workerVars, envVars, cfgVars, nodes, fStructure, idVars, fErrorFlag,
                  fReadVersionBuffer, datas, fObjectsInfos, fPoolsMap, cs >>
  /\ hist' = Append(hist, StkRec("DecrementLevel", FALSE))

\* SqlWriteObject: PopStack() after the streamer
StkPopStack ==
  /\ Len(hist) < MaxOps
  /\ fStk' = PopStack(nodes, fStk)
  /\ UNCHANGED << workerVars, envVars, cfgVars, nodes, fStructure, idVars, flagVars, dataVars, cs >>
  /\ hist' = Append(hist, StkRec("PopStack", FALSE))

StkNext ==
  \/ StkPushObject
  \/ \E info \in {0, 1} : StkIncrementLevel(info)
  \/ StkSetStreamerElementNumber
  \/ StkDecrementLevel
  \/ StkPopStack

StackSpec == StkInit /\ [][StkNext]_vars

\* ------------------------------------------------------------ one buffer, several top-level calls
\* A writing buffer that is not destroyed after SqlWriteAny and gets the
\* next top-level call: the members are what the call before left.
MaxCalls == 2

\* the top-level calls the buffer has served: each left a tree of its own
TopCalls == Cardinality({k \in 1..Len(nodes) : nodes[k].parent = 0})

ReuseInit ==
  /\ Init
  /\ mode = "write"
  /\ fCompressLevel = 0

\* TBufferSQL2::SqlWriteAny(obj, cl, objid) on a buffer that served a call
SqlWriteAnyAgain(obj, cl, objid) ==
  /\ mode = "write"
  /\ cs = << >>
  /\ used
  /\ fStk = 0
  /\ TopCalls < MaxCalls
  /\ used' = TRUE
  /\ fErrorFlag' = 0
  /\ fFirstObjId' = objid
  /\ SqlWriteObject(obj, cl, 0, objid, objid, cs)
  /\ UNCHANGED << workerVars, heap, store, rheap, mode, fCompressLevel, fIgnoreVerification,
                  fExpectedChain, fReadVersionBuffer, fLastObjId, dataVars >>

ReuseNext ==
  \/ \E obj \in Addr, objid \in 1..MaxBase : SqlWriteAny(obj, ClassOf(obj), objid)
  \/ \E obj \in Addr, objid \in 1..MaxBase : SqlWriteAnyAgain(obj, ClassOf(obj), objid)
  \/ \E target \in 0..NObj : WriteObjectClass(target)
  \/ SqlWriteObjectReturn
  \/ WriteVersion
  \/ WriteInt
  \/ WriteFastArray
  \/ IncrementLevel
  \/ SetStreamerElementNumber
  \/ DecrementLevel

ReuseSpec == ReuseInit /\ [][ReuseNext]_vars

\* ------------------------------------------------------------ ids at the end of the Int_t range
\* A writing buffer whose caller gives a base id next to the largest Int_t,
\* as the ids of a long-lived file are.
WideBases == {kMaxInt - 1, kMaxInt, kMaxInt + 1}

WideInit == Init /\ mode = "write" /\ fCompressLevel = 0

WideNext ==
  \/ \E obj \in Addr, objid \in WideBases : SqlWriteAny(obj, ClassOf(obj), objid)
  \/ \E target \in 0..NObj : WriteObjectClass(target)
  \/ SqlWriteObjectReturn
  \/ WriteVersion
  \/ WriteInt
  \/ WriteFastArray
  \/ IncrementLevel
  \/ SetStreamerElementNumber
  \/ DecrementLevel

WideSpec == WideInit /\ [][WideNext]_vars

\* ------------------------------------------------------------ one value alone
\* A reading buffer inside the streamer of an object, about to read an
\* Int_t: any cursor, any value under it, verification on or off, the error
\* flag clear or set.
MaxRaw == 2

\* the raw values a cursor can stand on
ValEntries == [type : {"Int", "Version"}, value : 1..MaxVal, index : {<< >>}]

\* cursors on raw data and on columns, anywhere up to the end
ValCursors ==
  {[NewObjectData(1, "B", << >>, w) EXCEPT !.blob = TRUE, !.pos = p] :
     w \in SeqsOf(ValEntries, MaxRaw), p \in 1..(MaxRaw + 1)}
  \cup {[NewObjectData(1, "B", r, << >>) EXCEPT !.pos = p] :
          r \in SeqsOf(1..MaxVal, MaxRaw), p \in 1..(MaxRaw + 1)}

ValInit ==
  /\ heap = NoHeap
  /\ NoProcessor
  /\ store = EmptyStore
  /\ rheap = << NewInstance("B") >>
  /\ mode = "read"
  /\ used = TRUE
  /\ nodes = << ArrObject >>
  /\ fStructure = 1
  /\ fStk = 1
  /\ fObjMap = ExMapAdd(NullMap, 0, 1)
  /\ fErrorFlag \in {0, 1}
  /\ fExpectedChain = FALSE
  /\ fCompressLevel = 0
  /\ fReadVersionBuffer = -1
  /\ fObjIdCounter = 1
  /\ fFirstObjId = 1
  /\ fLastObjId = 1
  /\ fIgnoreVerification \in BOOLEAN
  /\ fCurrentData \in {0, 1}
  /\ datas \in {<< d >> : d \in ValCursors}
  /\ fObjectsInfos = [alloc |-> FALSE, list |-> << >>]
  /\ fPoolsMap = {}
  \* the streamer of the object is about to call ReadInt
  /\ cs = << [fn |-> "SqlReadObjectDirect", via |-> "SqlReadAny", inst |-> 1,
              cl |-> "B", objid |-> 1, node |-> 1, pc |-> 2, stkIn |-> 0,
              olddata |-> 0, dest |-> [inst |-> 0, f |-> 0],
              mapIn |-> NullMap, datasIn |-> << >>, flagIn |-> 0] >>
  /\ hist = << >>

ValNext == ReadInt

ValueSpec == ValInit /\ [][ValNext]_vars

\* ------------------------------------------------------------ a custom streamer
\* The streamer of an object of class "A" that describes its data with
\* ClassBegin, ClassMember and ClassEnd, when writing and when reading, and
\* passes any member name and type name.
MaxMembers == 2

\* a null const char*
Null == "(null)"

Names == {Null, "", "fA", "A"}
TypeNames == {Null, "Int_t", "raw:data", "A", "A*", "Nope", "Nope*"}

\* gROOT->GetType(typeName): the basic types
BasicTypes == {"Int_t"}

\* tname[tname.Length()-1]=='*' and tname.Resize(tname.Length()-1)
IsPointerName(t) == t \in {"A*", "Nope*"}
Resize(t) == IF t = "A*" THEN "A" ELSE IF t = "Nope*" THEN "Nope" ELSE t

\* faulty variant: a class that is not known gives an element all the same
ClassMemberType_anyClass(name, typeName0) ==
  LET typeName == IF typeName0 = Null THEN name ELSE typeName0
  IN IF name = Null \/ name = "" THEN ""
     ELSE IF typeName = "raw:data" THEN "kMissing"
     ELSE IF typeName \in BasicTypes THEN "basic"
     ELSE IF name = typeName /\ GetClass(typeName) THEN "kBase"
     ELSE IF IsPointerName(typeName) THEN "kAnyp"
     ELSE "kAny"

\* ClassMember, lines 680-727: the kind of element the name and the type
\* name give, "" when the call ends with an error
ClassMemberType(name, typeName0) ==
  LET typeName == IF typeName0 = Null THEN name ELSE typeName0
  IN IF name = Null \/ name = "" THEN ""
     ELSE IF typeName = "raw:data" THEN "kMissing"
     ELSE IF typeName \in BasicTypes THEN "basic"
     ELSE IF name = typeName /\ GetClass(typeName) THEN "kBase"
     ELSE IF ~GetClass(Resize(typeName)) THEN ""
     ELSE IF IsPointerName(typeName) THEN "kAnyp"
     ELSE "kAny"

\* the column of the class table a member name stands for
MemberNo(name) == IF name = "fA" THEN 1 ELSE 2

\* the tables of a key that holds one object of class "A"
CustStore ==
  [key |-> 1, root |-> 1, damaged |-> FALSE, gone |-> {}, down |-> {},
   infos |-> << [objid |-> 1, cl |-> "A", version |-> GetClassVersion("A")] >>,
   rows |-> << << 0, 0 >> >>, blobs |-> << << >> >>]

CustInit ==
  /\ heap = NoHeap
  /\ NoProcessor
  /\ store = CustStore
  /\ mode \in {"write", "read"}
  /\ rheap = IF mode = "read" THEN << NewInstance("A") >> ELSE << >>
  /\ used = TRUE
  /\ nodes = << SetType(NewNode(0), "kSqlObject", 1, "A") >>
  /\ fStructure = 1
  /\ fStk = 1
  /\ fObjMap = ExMapAdd(NullMap, 0, 1)
  /\ fErrorFlag = 0
  /\ fExpectedChain \in BOOLEAN
  /\ fCompressLevel = 0
  /\ fReadVersionBuffer = -1
  /\ fObjIdCounter = 2
  /\ fFirstObjId = 1
  /\ fLastObjId = 1
  /\ fIgnoreVerification = FALSE
  /\ fCurrentData = 0
  /\ datas = << >>
  /\ fObjectsInfos = IF mode = "read" THEN [alloc |-> TRUE, list |-> CustStore.infos]
                     ELSE [alloc |-> FALSE, list |-> << >>]
  /\ fPoolsMap = {}
  /\ cs = << >>
  /\ hist = << >>

\* the log entry of a call of the custom streamer
CustRec(fn, name, typeName) ==
  [fn |-> fn, name |-> name, typeName |-> typeName,
   stkIn |-> fStk, stkOut |-> fStk', nodesIn |-> nodes, nodesOut |-> nodes',
   chainIn |-> fExpectedChain, chainOut |-> fExpectedChain',
   curIn |-> fCurrentData, curOut |-> fCurrentData',
   datasIn |-> datas, datasOut |-> datas',
   flagIn |-> fErrorFlag, flagOut |-> fErrorFlag']

\* TBufferSQL2::ClassBegin(cl, classversion) for class "A"
ClassBegin ==
  /\ Len(hist) < MaxOps
  /\ LET n == Len(nodes) + 1
         version == GetClassVersion("A")
         ns == Append(nodes, SetType(NewNode(fStk), "kSqlCustomClass", version, "A"))
         w == WorkWithClass("A", version, ns, n, fCurrentData, datas, fPoolsMap,
                            fErrorFlag, fFirstObjId, fLastObjId)
     IN /\ fStructure' = PushStructure(fStructure, fStk, n)
        /\ fStk' = n
        /\ fExpectedChain' = FALSE
        /\ IF mode = "read"
           THEN /\ nodes' = w.nodes
                /\ fErrorFlag' = w.flag
                /\ fCurrentData' = w.cur
                /\ datas' = w.datas
                /\ fPoolsMap' = w.pools
           ELSE /\ nodes' = ns
                /\ UNCHANGED << fErrorFlag, fCurrentData, datas, fPoolsMap >>
  /\ UNCHANGED << workerVars, envVars, cfgVars, idVars, fReadVersionBuffer, fObjectsInfos, cs >>
  /\ hist' = Append(hist, CustRec("ClassBegin", "", ""))

\* TBufferSQL2::ClassMember(name, typeName), where it dereferences no null
\* frame
ClassMember(name, typeName) ==
  /\ Cardinality(Recs("ClassMember")) < MaxMembers
  /\ Len(hist) < MaxOps
  /\ fStk # 0
  /\ LET typ == ClassMemberType(name, typeName)
         \* return stack to CustomClass node
         stk1 == IF nodes[fStk].type = "kSqlCustomElement"
                 THEN PopStack(nodes, fStk) ELSE fStk
         w == WorkWithElement(MemberNo(name), nodes, stk1, fCurrentData, datas,
                              fErrorFlag, mode = "read")
     IN IF typ = ""
        THEN \* "Invalid member name", "Invalid class specifier"
             /\ fErrorFlag' = 1
             /\ UNCHANGED << treeVars, fExpectedChain, fCurrentData, datas >>
        ELSE /\ stk1 # 0
             /\ Stack(nodes, stk1, 1) # 0
             /\ nodes' = w.nodes
             /\ fStructure' = PushStructure(fStructure, stk1, w.stk)
             /\ fStk' = w.stk
             /\ fExpectedChain' = FALSE
             /\ fErrorFlag' = w.flag
             /\ fCurrentData' = w.cur
             /\ datas' = w.datas
  /\ UNCHANGED << workerVars, envVars, cfgVars, idVars, fReadVersionBuffer, fObjectsInfos,
                  fPoolsMap, cs >>
  /\ hist' = Append(hist, CustRec("ClassMember", name, typeName))

\* TBufferSQL2::ClassEnd(cl), where it dereferences no null frame
ClassEnd ==
  /\ Len(hist) < MaxOps
  /\ fStk # 0
  /\ LET stk1 == IF nodes[fStk].type = "kSqlCustomElement"
                 THEN PopStack(nodes, fStk) ELSE fStk
         stk2 == PopStack(nodes, stk1)
     IN /\ stk2 # 0
        /\ fStk' = stk2
        /\ fCurrentData' = GetObjectData(nodes, stk2, TRUE)
  /\ fExpectedChain' = FALSE
  /\ UNCHANGED << workerVars, envVars, cfgVars, nodes, fStructure, idVars, fErrorFlag,
                  fReadVersionBuffer, datas, fObjectsInfos, fPoolsMap, cs >>
  /\ hist' = Append(hist, CustRec("ClassEnd", "", ""))

CustNext ==
  \/ ClassBegin
  \/ \E name \in Names, typeName \in TypeNames : ClassMember(name, typeName)
  \/ ClassEnd

CustomSpec == CustInit /\ [][CustNext]_vars

\* ------------------------------------------------------------ member chains
\* The members of a class of one basic type, all Int_t or all Char_t, that
\* the streamer of the class hands over in one fast-array call: the buffer
\* stands on the first member, the values are written, stored, and read back
\* by a buffer that stands on the first member again.

\* TStreamerInfo::kOffsetL, kOffsetP, kChar, kInt
kOffsetL == 20
kOffsetP == 40
kChar == 1
kInt == 3

\* a member: 0 a basic member, k >= 1 a fixed array of k values, -1 an array
\* of variable length
VarArray == -1

\* the number of values of a member of fixed size
Width(l) == IF l = 0 THEN 1 ELSE l

RECURSIVE Total(_)
Total(layout) ==
  IF layout = << >> THEN 0 ELSE Width(layout[1]) + Total(Tail(layout))

\* the member lists: a single array, or two members or more
Layouts ==
  {q \in SeqsOf(0..MaxLen, MaxLen) :
     /\ q # << >>
     /\ Len(q) = 1 => q[1] # 0
     /\ Total(q) <= MaxLen}
  \cup {<< VarArray >>}

\* the values handed over: 0 is the zero byte
ChainInputs ==
  {[fn |-> "Members", kind |-> kind, layout |-> q, vals |-> v] :
     kind \in {"Int", "Char"}, q \in Layouts, v \in SeqsOf(0..MaxVal, MaxLen)}

Members == hist[1]

\* TStreamerElement::GetType of member m
ElemType(m) ==
  (IF Members.kind = "Char" THEN kChar ELSE kInt)
  + (IF Members.layout[m] = 0 THEN 0
     ELSE IF Members.layout[m] > 0 THEN kOffsetL ELSE kOffsetP)

\* the type the streamer info passes for the first member: that of an array
\* when basic members were grouped
CompType ==
  IF Len(Members.layout) > 1 /\ Members.layout[1] = 0
  THEN ElemType(1) + kOffsetL ELSE ElemType(1)

\* the tag of a value of the chain, sqlio::Char or sqlio::Int
ValueTag == IF Members.kind = "Char" THEN "Char" ELSE "Int"

\* SetStreamerElementNumber, lines 604-605
ExpectedChain(elem_type, comp_type) ==
  (elem_type > 0 /\ elem_type < 20) /\ comp_type - elem_type = kOffsetL

\* the macros: the member on top of the stack is a fixed array of another
\* length than n
OtherLength(elem_type, arraylength, n) ==
  elem_type > kOffsetL /\ elem_type < kOffsetP /\ arraylength # n

\* TSQLStructure::GetElementNumber
GetElementNumber(ns, i) == IF ns[i].type = "kSqlElement" THEN ns[i].value ELSE 0

\* the member a frame stands for
ElementOf(ns, i) == ns[i].value + 1

\* TSQLStructure::LocateElementColumn: the cursor on the first column of
\* member m, or on its raw value
LocateElementColumn(d, m) ==
  IF m > Len(store.cols) \/ (store.cols[m].col = 0 /\ store.cols[m].raw = 0)
  THEN [ok |-> FALSE, data |-> d]
  ELSE IF store.cols[m].raw > 0
  THEN [ok |-> TRUE, data |-> [d EXCEPT !.blob = TRUE, !.pos = store.cols[m].raw]]
  ELSE [ok |-> TRUE, data |-> LocateColumn(d, store.cols[m].col)]

\* TBufferSQL2::WorkWithElement(elem, comp_type) for member m of a class whose
\* arrays have columns of their own
WorkWithMember(m, ns, stk, cur, ds, flag, reading) ==
  LET info == GetStreamerInfo(ns, Stack(ns, stk, 1))
      number == IF info # "" THEN m - 1 ELSE -1
      n == Len(ns) + 1
      ns1 == Append(ns, IF number >= 0
                        THEN SetType(NewNode(stk), "kSqlElement", number, "")
                        ELSE SetType(NewNode(stk), "kSqlCustomElement", m - 1, ""))
      cur1 == GetObjectData(ns1, n, TRUE)
  IN IF ~reading
     THEN [flag |-> flag, nodes |-> ns1, stk |-> n, cur |-> cur, datas |-> ds]
     ELSE IF cur = 0
     THEN [flag |-> 1, nodes |-> ns1, stk |-> n, cur |-> cur, datas |-> ds]
     ELSE IF cur1 = 0 \/ ~LocateElementColumn(ds[cur1], m).ok
     THEN [flag |-> 1, nodes |-> ns1, stk |-> n, cur |-> cur1, datas |-> ds]
     ELSE [flag |-> flag, nodes |-> ns1, stk |-> n, cur |-> cur1,
           datas |-> [ds EXCEPT ![cur1] = LocateElementColumn(@, m).data]]

ChnInit ==
  /\ heap = NoHeap
  /\ NoProcessor
  /\ store = [key |-> -1, cols |-> << >>, row |-> << >>, raw |-> << >>]
  /\ rheap = << >>
  /\ mode = "write"
  /\ used = TRUE
  /\ fCompressLevel = 0
  /\ fIgnoreVerification = FALSE
  /\ nodes = << SetType(NewNode(0), "kSqlObject", 1, "A"),
               SetType(NewNode(1), "kSqlStreamerInfo", GetClassVersion("A"), "A") >>
  /\ fStructure = 1
  /\ fStk = 2
  /\ fObjMap = ExMapAdd(NullMap, 0, 1)
  /\ fObjIdCounter = 2
  /\ fFirstObjId = 1
  /\ fLastObjId = 1
  /\ fErrorFlag = 0
  /\ fExpectedChain = FALSE
  /\ fReadVersionBuffer = -1
  /\ fCurrentData = 0
  /\ datas = << >>
  /\ fObjectsInfos = [alloc |-> FALSE, list |-> << >>]
  /\ fPoolsMap = {}
  /\ cs = << >>
  /\ \E in \in ChainInputs :
       /\ in.layout # << VarArray >> => Len(in.vals) = Total(in.layout)
       /\ hist = << in >>

\* TBufferSQL2::SetStreamerElementNumber(elem, comp_type) for the first member
ChnSetStreamerElementNumber ==
  /\ fStk # 0
  /\ GetStreamerInfo(nodes, fStk) # ""
  /\ Children(nodes, fStk) = << >>
  /\ LET stk1 == IF GetElement(nodes, fStk) THEN PopStack(nodes, fStk) ELSE fStk
         w == WorkWithMember(1, nodes, stk1, fCurrentData, datas, fErrorFlag,
                             mode = "read")
     IN /\ nodes' = w.nodes
        /\ fStructure' = PushStructure(fStructure, stk1, w.stk)
        /\ fStk' = w.stk
        /\ fExpectedChain' = ExpectedChain(ElemType(1), CompType)
        /\ fErrorFlag' = w.flag
        /\ fCurrentData' = w.cur
        /\ datas' = w.datas
  /\ UNCHANGED << workerVars, envVars, cfgVars, idVars, fReadVersionBuffer, fObjectsInfos,
                  fPoolsMap, cs, hist >>

\* the loop of TBufferSQL2_WriteFastArray over the members of the chain: m is
\* the member At(startnumber) gives, frames the members a frame was opened for
RECURSIVE WriteChain(_, _, _, _, _, _)
WriteChain(m, index, n, ns, stk, frames) ==
  IF index >= n
  THEN [nodes |-> ns, stk |-> stk, frames |-> frames]
  ELSE LET shift == index > 0
           w == WorkWithMember(m, ns, PopStack(ns, stk), 0, << >>, 0, FALSE)
           ns1 == IF shift THEN w.nodes ELSE ns
           stk1 == IF shift THEN w.stk ELSE stk
           fr == IF shift THEN Append(frames, m) ELSE frames
           elemlen == Members.layout[m]
       IN IF ElemType(m) < kOffsetL
          THEN WriteChain(m + 1, index + 1, n,
                          Append(ns1, ChildNode(stk1, "kSqlValue", Members.vals[index + 1],
                                                ValueTag, << >>)),
                          stk1, fr)
          ELSE WriteChain(m + 1, index + elemlen, n,
                          ns1 \o SQLWriteArrayContent(
                                   SubSeq(Members.vals, index + 1, index + elemlen),
                                   stk1, fCompressLevel, Len(ns1) + 1),
                          stk1, fr)

\* TBufferSQL2_WriteFastArray(vname) for n values
MacroWriteFastArray(n) ==
  LET m == ElementOf(nodes, fStk)
      chain == fExpectedChain
                 \/ OtherLength(ElemType(m), Members.layout[m], n)
  IN IF n <= 0
     THEN [nodes |-> nodes, stk |-> fStk, frames |-> << >>, chain |-> fExpectedChain]
     ELSE IF chain
     THEN [chain |-> FALSE]
          @@ WriteChain(GetElementNumber(nodes, fStk) + 1, 0, n, nodes, fStk, << >>)
     ELSE [nodes |-> nodes \o SQLWriteArrayContent(Members.vals, fStk, fCompressLevel,
                                                   Len(nodes) + 1),
           stk |-> fStk, frames |-> << >>, chain |-> fExpectedChain]

\* WriteFastArray(const Char_t*, n), lines 1862-1868: the array goes the way
\* of the other types
UseDefault(n, chain, c) ==
  n = 0 \/ chain \/ \E i \in 1..n : c[i] = 0

\* the number of values the streamer passes
CallLength ==
  IF Members.layout = << VarArray >> THEN Len(Members.vals) ELSE Total(Members.layout)

\* the log entry of a fast-array call
ChnRec(fn, string, frames, arr) ==
  [fn |-> fn, n |-> CallLength, chainIn |-> fExpectedChain, string |-> string,
   frames |-> frames, arr |-> arr, nodesIn |-> nodes, nodesOut |-> nodes',
   stkIn |-> fStk, stkOut |-> fStk', flagOut |-> fErrorFlag']

\* TBufferSQL2::WriteFastArray(const Int_t*, n) and
\* TBufferSQL2::WriteFastArray(const Char_t*, n)
ChnWriteFastArray ==
  /\ mode = "write"
  /\ GetElement(nodes, fStk)
  /\ Recs("WriteFastArray") = {}
  /\ LET n == CallLength
         string == Members.kind = "Char" /\ ~UseDefault(n, fExpectedChain, Members.vals)
         w == MacroWriteFastArray(n)
     IN /\ IF string
           THEN \* SqlWriteValue(buf, sqlio::CharStar)
                /\ nodes' = Append(nodes, ChildNode(fStk, "kSqlValue", Members.vals,
                                                    "CharStar", << >>))
                /\ UNCHANGED << fStk, fExpectedChain >>
           ELSE /\ nodes' = w.nodes
                /\ fStk' = w.stk
                /\ fExpectedChain' = w.chain
        /\ UNCHANGED << fStructure, fErrorFlag >>
        /\ hist' = Append(hist, ChnRec("WriteFastArray", string,
                                       IF string THEN << >> ELSE w.frames,
                                       Members.vals))
  /\ UNCHANGED << workerVars, envVars, cfgVars, idVars, fReadVersionBuffer, dataVars, cs >>

\* the values of the members in the tables: a string is a raw value, every
\* other value has a column
RECURSIVE ChainTables(_, _)
ChainTables(ns, m) ==
  IF m = 0
  THEN [key |-> 1, cols |-> << >>, row |-> << >>, raw |-> << >>]
  ELSE LET t == ChainTables(ns, m - 1)
           fs == SelectSeq(Children(ns, 2), LAMBDA k : ns[k].value = m - 1)
           kids == IF fs = << >> THEN << >> ELSE Children(ns, fs[1])
           One(k) == IF ns[k].type = "kSqlArray"
                     THEN [j \in 1..Len(Children(ns, k)) |-> ns[Children(ns, k)[j]].value]
                     ELSE << ns[k].value >>
           RECURSIVE Cat(_)
           Cat(j) == IF j > Len(kids) THEN << >> ELSE One(kids[j]) \o Cat(j + 1)
           string == kids # << >> /\ ns[kids[1]].pointer = "CharStar"
       IN IF kids = << >>
          THEN [t EXCEPT !.cols = Append(@, [col |-> 0, raw |-> 0])]
          ELSE IF string
          THEN [t EXCEPT !.cols = Append(@, [col |-> 0, raw |-> Len(t.raw) + 1]),
                         !.raw = Append(@, [type |-> "CharStar",
                                            value |-> ns[kids[1]].value,
                                            index |-> << >>])]
          ELSE [t EXCEPT !.cols = Append(@, [col |-> Len(t.row) + 1, raw |-> 0]),
                         !.row = @ \o Cat(1)]

\* the tree of the writing buffer goes to the tables
ChnStore ==
  /\ mode = "write"
  /\ Recs("WriteFastArray") # {}
  /\ store.key < 0
  /\ store' = ChainTables(nodes, Len(Members.layout))
  /\ UNCHANGED << workerVars, heap, rheap, cfgVars, treeVars, idVars, flagVars, dataVars, cs, hist >>

\* a reading buffer inside the streamer of the object, after IncrementLevel
ChnOpen ==
  /\ mode = "write"
  /\ store.key >= 0
  /\ mode' = "read"
  /\ nodes' = << SetType(NewNode(0), "kSqlObject", 1, "A"),
                [SetType(NewNode(1), "kSqlStreamerInfo", GetClassVersion("A"), "A")
                   EXCEPT !.objdata = 1] >>
  /\ fStructure' = 1
  /\ fStk' = 2
  /\ fErrorFlag' = 0
  /\ fExpectedChain' = FALSE
  /\ datas' = << NewObjectData(1, "A", store.row, store.raw) >>
  /\ fCurrentData' = 1
  /\ rheap' = << [NewInstance("A") EXCEPT !.arr = [i \in 1..CallLength |-> -1]] >>
  /\ UNCHANGED << workerVars, heap, store, used, fCompressLevel, fIgnoreVerification, idVars,
                  fReadVersionBuffer, fObjectsInfos, fPoolsMap, cs, hist >>

\* arr with the values of sub from the C index from on
Place(arr, from, sub) ==
  [i \in 1..Len(arr) |->
     IF i - 1 >= from /\ i - 1 < from + Len(sub) THEN sub[i - from] ELSE arr[i]]

\* the loop of TBufferSQL2_ReadFastArray over the members of the chain
RECURSIVE ReadChain(_, _, _, _, _, _, _, _, _, _)
ReadChain(m, index, n, ns, stk, cur, ds, arr, flag, frames) ==
  IF index >= n
  THEN [nodes |-> ns, stk |-> stk, cur |-> cur, datas |-> ds, arr |-> arr,
        flag |-> flag, frames |-> frames]
  ELSE LET shift == index > 1
           w == WorkWithMember(m, ns, PopStack(ns, stk), cur, ds, flag, TRUE)
           ns1 == IF shift THEN w.nodes ELSE ns
           stk1 == IF shift THEN w.stk ELSE stk
           cur1 == IF shift THEN w.cur ELSE cur
           ds1 == IF shift THEN w.datas ELSE ds
           flag1 == IF shift THEN w.flag ELSE flag
           fr == IF shift THEN Append(frames, m) ELSE frames
           elemlen == Members.layout[m]
           rv == SqlReadValue(cur1, ds1, ValueTag, flag1, fIgnoreVerification)
           sub == SQLReadArrayContent(cur1, ds1, SubSeq(arr, index + 1, index + elemlen),
                                      flag1, fIgnoreVerification, << 0, 0 >>)
       IN IF ElemType(m) < kOffsetL
          THEN ReadChain(m + 1, index + 1, n, ns1, stk1, cur1, rv.datas,
                         Place(arr, index, << IF rv.ok THEN rv.value ELSE 0 >>),
                         rv.flag, fr)
          ELSE ReadChain(m + 1, index + elemlen, n,
                         Append(ns1, SetType(NewNode(stk1), "kSqlArray", -1, "")),
                         stk1, cur1, sub.datas, Place(arr, index, sub.arr),
                         sub.flag, fr)

\* TBufferSQL2_ReadFastArray(vname) for n values
MacroReadFastArray(n, arr) ==
  LET m == ElementOf(nodes, fStk)
      chain == fExpectedChain
                 \/ OtherLength(ElemType(m), Members.layout[m], n)
      r == SQLReadArrayContent(fCurrentData, datas, arr, fErrorFlag,
                               fIgnoreVerification, << 0, 0 >>)
  IN IF n <= 0
     THEN [nodes |-> nodes, stk |-> fStk, cur |-> fCurrentData, datas |-> datas,
           arr |-> arr, flag |-> fErrorFlag, frames |-> << >>,
           chain |-> fExpectedChain]
     ELSE IF chain
     THEN [chain |-> FALSE]
          @@ ReadChain(GetElementNumber(nodes, fStk) + 1, 0, n, nodes, fStk,
                       fCurrentData, datas, arr, fErrorFlag, << >>)
     ELSE [nodes |-> Append(nodes, SetType(NewNode(fStk), "kSqlArray", -1, "")),
           stk |-> fStk, cur |-> fCurrentData, datas |-> r.datas, arr |-> r.arr,
           flag |-> r.flag, frames |-> << >>, chain |-> fExpectedChain]

\* ReadFastArray(Char_t*, n): size = strlen(buf); if (size<n) size = n;
MemcpySize(len, n) == IF len < n THEN n ELSE len

\* memcpy(c, buf, size) within the array c and the string buf with its
\* terminating zero
Memcpy(c, buf, size) ==
  [i \in 1..Len(c) |->
     IF i > size THEN c[i] ELSE IF i <= Len(buf) THEN buf[i] ELSE 0]

\* what c can hold after a memcpy that leaves c or buf: the bytes that lie
\* within both are those of buf, the others are any
MemcpyBeyond(c, buf, size) ==
  {a \in [1..Len(c) -> 0..MaxVal] :
     \A i \in 1..Len(c) : i <= size /\ i <= Len(buf) + 1 => a[i] = Memcpy(c, buf, size)[i]}

\* TBufferSQL2::ReadFastArray(Int_t*, n) and
\* TBufferSQL2::ReadFastArray(Char_t*, n); the strings are short ones, none
\* is kept in the table of long strings
ChnReadFastArray ==
  /\ mode = "read"
  /\ GetElement(nodes, fStk)
  /\ Recs("ReadFastArray") = {}
  /\ fCurrentData # 0
  /\ LET n == CallLength
         arr == rheap[1].arr
         d == datas[fCurrentData]
         string == /\ Members.kind = "Char"
                   /\ n > 0 /\ IsBlobData(d) /\ VerifyDataType(d, "CharStar")
         rv == SqlReadValue(fCurrentData, datas, "CharStar", fErrorFlag,
                            fIgnoreVerification)
         size == MemcpySize(Len(rv.value), n)
         r == MacroReadFastArray(n, arr)
     IN /\ IF string
           THEN /\ datas' = rv.datas
                /\ fErrorFlag' = rv.flag
                /\ IF ~rv.ok
                   THEN UNCHANGED rheap
                   ELSE IF size <= n /\ size <= Len(rv.value) + 1
                   THEN rheap' = [rheap EXCEPT ![1].arr = Memcpy(arr, rv.value, size)]
                   ELSE \* the copy leaves c or buf
                        \E a \in MemcpyBeyond(arr, rv.value, size) :
                          rheap' = [rheap EXCEPT ![1].arr = a]
                /\ UNCHANGED << nodes, fStk, fExpectedChain, fCurrentData >>
           ELSE /\ nodes' = r.nodes
                /\ fStk' = r.stk
                /\ fExpectedChain' = r.chain
                /\ fCurrentData' = r.cur
                /\ datas' = r.datas
                /\ fErrorFlag' = r.flag
                /\ rheap' = [rheap EXCEPT ![1].arr = r.arr]
        /\ hist' = Append(hist, ChnRec("ReadFastArray", string,
                                       IF string THEN << >> ELSE r.frames,
                                       rheap'[1].arr)
                                @@ [copied |-> IF string /\ rv.ok THEN size ELSE 0,
                                    buflen |-> IF string /\ rv.ok THEN Len(rv.value)
                                               ELSE 0])
  /\ UNCHANGED << workerVars, heap, store, cfgVars, fStructure, idVars, fReadVersionBuffer,
                  fObjectsInfos, fPoolsMap, cs >>

ChnNext ==
  \/ ChnSetStreamerElementNumber
  \/ ChnWriteFastArray
  \/ ChnStore
  \/ ChnOpen
  \/ ChnReadFastArray

ChainSpec == ChnInit /\ [][ChnNext]_vars

\* ------------------------------------------------------------ the object-info list alone
\* A reading buffer after SqlReadAny took the list of the objects of a key
\* and the id the caller asked for, and SqlObjectInfo asked for any id.  The
\* ids of the list are distinct; their order and the id the caller gave are
\* free.
MaxList == 3

\* the entries the objects table can hold for an id
InfoEntries(id) ==
  UNION {{[objid |-> id, cl |-> c, version |-> v] :
            v \in {GetClassVersion(c) - 1, GetClassVersion(c)}} : c \in Classes}

\* the lists of entries with distinct ids, in any order
RECURSIVE InfoLists(_)
InfoLists(n) ==
  IF n = 0 THEN {<< >>}
  ELSE LET P == InfoLists(n - 1)
       IN P \cup {Append(q, e) :
                    q \in {x \in P : Len(x) = n - 1},
                    e \in UNION {InfoEntries(id) : id \in 1..MaxList}}

DistinctIds(list) ==
  \A j, k \in 1..Len(list) : list[j].objid = list[k].objid => j = k

InfoInit ==
  /\ heap = NoHeap
  /\ NoProcessor
  /\ store = EmptyStore
  /\ rheap = << >>
  /\ mode = "read"
  /\ used = TRUE
  /\ nodes = << >>
  /\ fStructure = 0
  /\ fStk = 0
  /\ fObjMap = NullMap
  /\ fErrorFlag = 0
  /\ fExpectedChain = FALSE
  /\ fCompressLevel = 0
  /\ fReadVersionBuffer = -1
  /\ fObjIdCounter = 1
  /\ fFirstObjId \in 0..MaxList
  /\ \E alloc \in BOOLEAN, list \in InfoLists(MaxList) :
       /\ DistinctIds(list)
       /\ ~alloc => list = << >>
       /\ fObjectsInfos = [alloc |-> alloc, list |-> list]
       /\ fLastObjId = IF list # << >> THEN Last(list).objid ELSE fFirstObjId
  /\ fIgnoreVerification = FALSE
  /\ fCurrentData = 0
  /\ datas = << >>
  /\ fPoolsMap = {}
  /\ cs = << >>
  /\ hist = << >>

\* TBufferSQL2::SqlObjectInfo(objid, clname, version) called in the pass
InfoRequest(objid) ==
  /\ hist = << >>
  /\ hist' = << [fn |-> "SqlObjectInfo", objid |-> objid,
                 ret |-> SqlObjectInfo(objid, fObjectsInfos, fFirstObjId)] >>
  /\ UNCHANGED << workerVars, envVars, cfgVars, treeVars, idVars, flagVars, dataVars, cs >>

InfoNext == \E objid \in -1..MaxList + 1 : InfoRequest(objid)

InfoSpec == InfoInit /\ [][InfoNext]_vars

\* ------------------------------------------------------------ a stored string of any length
\* A reading buffer that stands on a character array of n elements whose
\* member was stored as one string, of any length: the array had another
\* length when the string was written.
Strings == SeqsOf(1..MaxVal, MaxLen + 1)

StrInit ==
  /\ heap = NoHeap
  /\ NoProcessor
  /\ mode = "read"
  /\ used = TRUE
  /\ fCompressLevel = 0
  /\ fIgnoreVerification = FALSE
  /\ nodes = << SetType(NewNode(0), "kSqlObject", 1, "A"),
               [SetType(NewNode(1), "kSqlStreamerInfo", GetClassVersion("A"), "A")
                  EXCEPT !.objdata = 1],
               SetType(NewNode(2), "kSqlCustomElement", 0, "") >>
  /\ fStructure = 1
  /\ fStk = 3
  /\ fObjMap = ExMapAdd(NullMap, 0, 1)
  /\ fObjIdCounter = 2
  /\ fFirstObjId = 1
  /\ fLastObjId = 1
  /\ fErrorFlag = 0
  /\ fExpectedChain = FALSE
  /\ fReadVersionBuffer = -1
  /\ fCurrentData = 1
  /\ fObjectsInfos = [alloc |-> TRUE,
                      list |-> << [objid |-> 1, cl |-> "A",
                                   version |-> GetClassVersion("A")] >>]
  /\ fPoolsMap = {}
  /\ cs = << >>
  /\ \E n \in 1..MaxLen, var \in BOOLEAN, str \in Strings :
       LET raw == << [type |-> "CharStar", value |-> str, index |-> << >>] >>
           q == IF var THEN << VarArray >> ELSE << n >>
       IN /\ hist = << [fn |-> "Members", kind |-> "Char", layout |-> q,
                        vals |-> [i \in 1..n |-> 1]] >>
          /\ store = [key |-> 1, cols |-> << [col |-> 0, raw |-> 1] >>,
                      row |-> << >>, raw |-> raw]
          /\ datas = << PrepareForRawData(NewObjectData(1, "A", << >>, raw)) >>
          /\ rheap = << [NewInstance("A") EXCEPT !.arr = [i \in 1..n |-> -1]] >>

StrNext == ChnReadFastArray

StringSpec == StrInit /\ [][StrNext]_vars

\* ------------------------------------------------------------ the array read loops, step by step
\* SQLReadArrayContent on an array of any size and on any stored values, one
\* action for every pass through the body of its loop: the values are raw
\* ones with any index tags, or the columns of a row.

\* the raw values a table can hold for an array: any tag or none
LoopEntries(k) ==
  {[type |-> "Int", value |-> k, index |-> t] : t \in Tags \cup {<< >>}}

RECURSIVE LoopRaws(_)
LoopRaws(n) ==
  IF n = 0 THEN {<< >>}
  ELSE LET P == LoopRaws(n - 1)
       IN P \cup {Append(q, e) : q \in {x \in P : Len(x) = n - 1}, e \in LoopEntries(n)}

LoopCursors ==
  {PrepareForRawData(NewObjectData(1, "B", << >>, raw)) : raw \in LoopRaws(MaxRaw)}
  \cup {LocateColumn(NewObjectData(1, "B", [k \in 1..n |-> k], << >>), 1) : n \in 0..MaxLen}

\* the frame of the macro: indx, and whether the loop was left
LoopFrame(indx, left) == [fn |-> "SQLReadArrayContent", indx |-> indx, left |-> left]

LoopInit ==
  /\ heap = NoHeap
  /\ NoProcessor
  /\ store = EmptyStore
  /\ mode = "read"
  /\ used = TRUE
  /\ \E n \in 0..MaxLen : rheap = << [NewInstance("B") EXCEPT !.arr = [i \in 1..n |-> -1]] >>
  /\ nodes = << ArrObject, SetType(NewNode(1), "kSqlArray", -1, "") >>
  /\ fStructure = 1
  /\ fStk = 2
  /\ fObjMap = NullMap
  /\ fErrorFlag = 0
  /\ fExpectedChain = FALSE
  /\ fCompressLevel = 0
  /\ fReadVersionBuffer = -1
  /\ fObjIdCounter = 2
  /\ fFirstObjId = 1
  /\ fLastObjId = 1
  /\ fIgnoreVerification = FALSE
  /\ fCurrentData = 1
  /\ \E d \in LoopCursors : datas = << d >>
  /\ fObjectsInfos = [alloc |-> FALSE, list |-> << >>]
  /\ fPoolsMap = {}
  /\ cs = << LoopFrame(0, FALSE) >>
  /\ hist = << >>

\* faulty variant: the index stays on the last element of the run
AfterRun_last(indx, last) == last

\* SQLReadArrayCompress: indx++; while(indx<=last) vname[indx++] = ...
AfterRun(indx, last) == IF last >= indx + 1 THEN last + 1 ELSE indx + 1

\* one pass through the body of the loop of SQLReadArrayCompress; g is what
\* first and last hold when the name of the value has no index
CompressStep(g) ==
  /\ ~cs[1].left
  /\ IsBlobData(datas[fCurrentData])
  /\ cs[1].indx < Len(rheap[1].arr)
  /\ LET d == datas[fCurrentData]
         indx == cs[1].indx
         idx == IF HasValue(d) /\ d.raw[d.pos].index # << >>
                THEN d.raw[d.pos].index ELSE g
         first == idx[1]
         last == idx[2]
         rv == SqlReadValue(fCurrentData, datas, "Int", fErrorFlag, fIgnoreVerification)
     IN IF BadTag(first, last, indx, Len(rheap[1].arr))
        THEN \* "Error reading array content", break
             /\ fErrorFlag' = 1
             /\ cs' = << LoopFrame(indx, TRUE) >>
             /\ fStk' = PopStack(nodes, fStk)
             /\ UNCHANGED << rheap, datas >>
        ELSE /\ fErrorFlag' = rv.flag
             /\ datas' = rv.datas
             /\ rheap' = [rheap EXCEPT ![1].arr =
                            Fill(@, first, last, IF rv.ok THEN rv.value ELSE 0)]
             /\ cs' = << LoopFrame(AfterRun(indx, last), FALSE) >>
             /\ UNCHANGED fStk
  /\ UNCHANGED << workerVars, heap, store, cfgVars, nodes, fStructure, idVars, fExpectedChain,
                  fReadVersionBuffer, fCurrentData, fObjectsInfos, fPoolsMap, hist >>

\* one pass through the body of the loop of SQLReadArrayUncompress
UncompressStep ==
  /\ ~cs[1].left
  /\ ~IsBlobData(datas[fCurrentData])
  /\ cs[1].indx < Len(rheap[1].arr)
  /\ LET indx == cs[1].indx
         rv == SqlReadValue(fCurrentData, datas, "Int", fErrorFlag, fIgnoreVerification)
     IN /\ fErrorFlag' = rv.flag
        /\ datas' = rv.datas
        /\ rheap' = [rheap EXCEPT ![1].arr =
                       Fill(@, indx, indx, IF rv.ok THEN rv.value ELSE 0)]
        /\ cs' = << LoopFrame(indx + 1, FALSE) >>
  /\ UNCHANGED << workerVars, heap, store, cfgVars, treeVars, idVars, fExpectedChain,
                  fReadVersionBuffer, fCurrentData, fObjectsInfos, fPoolsMap, hist >>

\* the condition of the loop fails: PopStack
LoopExit ==
  /\ ~cs[1].left
  /\ cs[1].indx >= Len(rheap[1].arr)
  /\ cs' = << LoopFrame(cs[1].indx, TRUE) >>
  /\ fStk' = PopStack(nodes, fStk)
  /\ UNCHANGED << workerVars, envVars, cfgVars, nodes, fStructure, idVars, flagVars, dataVars, hist >>

LoopNext ==
  \/ \E g \in Tags : CompressStep(g)
  \/ UncompressStep
  \/ LoopExit

\* the macro runs on until it is left
LoopSpec == LoopInit /\ [][LoopNext]_vars /\ WF_vars(LoopNext)

\* ------------------------------------------------------------ the pool workers
\* TPoolProcessor: the workers of a TPool.  Each worker is a process of its
\* own with its own copy of the fields; the client sends one message at a
\* time to a worker and the worker answers on its socket.
MaxWorkers == 2
MaxEntries == 6
MaxLimit == 4
MaxMsgs == 1

\* width of unsigned (32, scaled down)
UIntBits == 3

\* conversion of a Long64_t to unsigned
Unsigned(x) == x % (2 ^ UIntBits)

Workers == 0..fNWorkers - 1

\* the codes a client sends; kShutdownOrder stands for every code the
\* processor does not know
PoolCodes == {"kProcRange", "kProcFile", "kProcTree", "kSendResult", "kShutdownOrder"}

\* the buffer is not in use beside the pool
NoBuffer ==
  /\ heap = NoHeap
  /\ store = EmptyStore
  /\ rheap = << >>
  /\ mode = "read"
  /\ used = FALSE
  /\ nodes = << >>
  /\ fStructure = 0
  /\ fStk = 0
  /\ fObjMap = NullMap
  /\ fErrorFlag = 0
  /\ fExpectedChain = FALSE
  /\ fCompressLevel = 0
  /\ fReadVersionBuffer = -1
  /\ fObjIdCounter = 1
  /\ fFirstObjId = 0
  /\ fLastObjId = 0
  /\ fIgnoreVerification = FALSE
  /\ fCurrentData = 0
  /\ datas = << >>
  /\ fObjectsInfos = [alloc |-> FALSE, list |-> << >>]
  /\ fPoolsMap = {}
  /\ cs = << >>

\* fTree of a worker made from file names
NoTree == [defined |-> FALSE, entries |-> 0, file |-> FALSE]

\* TPoolProcessor(procFunc, fileNames, treeName, nWorkers, maxEntries) and
\* TPoolProcessor(procFunc, tree, nWorkers, maxEntries): the same arguments
\* in every worker; the trees have trees \subseteq Nat entries, the global
\* limit is one of limits
NewProcessors(trees, limits) ==
  \E nWorkers \in 1..MaxWorkers, maxEntries \in limits, entries \in trees,
     src \in {"files", "tree", "treeInFile"} :
       /\ fNWorkers = nWorkers
       /\ fFileNames = IF src = "files" THEN << [entries |-> entries] >> ELSE << >>
       /\ fTree = IF src = "files" THEN NoTree
                  ELSE [defined |-> TRUE, entries |-> entries,
                        file |-> src = "treeInFile"]
       /\ fS = [w \in 0..nWorkers - 1 |-> [open |-> FALSE, sent |-> << >>]]
       /\ fMaxNEntries = [w \in 0..nWorkers - 1 |-> maxEntries]
       /\ fProcessedEntries = [w \in 0..nWorkers - 1 |-> 0]
       /\ fCanReduce = [w \in 0..nWorkers - 1 |-> FALSE]
       /\ fReducedResult = [w \in 0..nWorkers - 1 |-> 0]
       /\ hist = << [fn |-> "TPoolProcessor", maxEntries |-> maxEntries] >>

ProcInit == NoBuffer /\ NewProcessors(0..MaxEntries, 0..MaxLimit)

\* the maxEntries given to the constructor
MaxEntriesArg == hist[1].maxEntries

\* TPoolProcessor::EvalMaxEntries(maxEntries) in worker number nWorker
EvalMaxEntries_even(nWorker, maxEntries, nWorkers) == maxEntries \div nWorkers

EvalMaxEntries(nWorker, maxEntries, nWorkers) ==
  IF nWorker < nWorkers - 1
  THEN maxEntries \div nWorkers
  ELSE maxEntries - (nWorkers - 1) * (maxEntries \div nWorkers)

\* TPoolProcessor::Init(fd, workerN): TMPWorker::Init opens the socket and
\* sets the worker number, then the worker takes its share of the limit
WorkerInit(w) ==
  /\ ~fS[w].open
  /\ fS' = [fS EXCEPT ![w].open = TRUE]
  /\ fMaxNEntries' = [fMaxNEntries EXCEPT ![w] = EvalMaxEntries(w, @, fNWorkers)]
  /\ UNCHANGED << envVars, cfgVars, treeVars, idVars, flagVars, dataVars, cs, hist,
                  fNWorkers, fFileNames, fTree, fProcessedEntries, fCanReduce,
                  fReducedResult >>

\* Process, lines 188-205: the range of entries a request stands for
EntryRange(code, entries, nProcessed, nWorkers) ==
  IF code \in {"kProcRange", "kProcTree"}
  THEN LET nEntries == Unsigned(entries)
           nBunch == nEntries \div nWorkers
           rangeN == Unsigned(nProcessed) % nWorkers
       IN [start |-> Unsigned(rangeN * nBunch),
           finish |-> IF rangeN < nWorkers - 1
                      THEN Unsigned((rangeN + 1) * nBunch)
                      ELSE nEntries]
  ELSE [start |-> 0, finish |-> entries]

\* Process, lines 207-211: finish after the check against the limit
LimitFinish(start, finish, maxNEntries, processedEntries) ==
  IF maxNEntries # 0 /\ processedEntries + finish - start > maxNEntries
  THEN start + maxNEntries - processedEntries
  ELSE finish

\* TTreeReader::SetEntriesRange(start, finish) on a tree of entries entries:
\* the statuses it can give (TRUE: kEntryValid).  A range inside the tree
\* is valid; what it answers to an empty range or to one outside the tree
\* is left open.
SetEntriesRange(start, finish, entries) ==
  IF 0 <= start /\ start < finish /\ finish <= entries THEN {TRUE} ELSE BOOLEAN

\* the tree a processing request of this code works on has this many entries
EntriesOfRequest(code, fileN) ==
  IF code = "kProcTree" THEN fTree.entries ELSE fFileNames[fileN + 1].entries

\* TPoolProcessor::Process(code, msg) in worker w: what it sends and the
\* fields it leaves.  arg is the number read from the message; opened,
\* found, valid are what OpenFile, RetrieveTree and SetEntriesRange give.
Process(w, code, arg, opened, found, valid) ==
  LET none == [sent |-> << >>, split |-> FALSE, done |-> FALSE, entries |-> 0,
               range |-> [start |-> 0, finish |-> 0], finish |-> 0]
      fileN == IF code = "kProcFile" THEN arg ELSE Unsigned(arg) \div fNWorkers
      needFile == code # "kProcTree" \/ fTree.file
      entries == EntriesOfRequest(code, fileN)
      range == EntryRange(code, entries, arg, fNWorkers)
      finish == LimitFinish(range.start, range.finish, fMaxNEntries[w],
                            fProcessedEntries[w])
      ranged == [none EXCEPT !.split = TRUE, !.entries = entries, !.range = range,
                             !.finish = finish]
  IN IF code = "kProcTree" /\ ~fTree.defined
     THEN none
     ELSE IF needFile /\ (~opened \/ ~found)
     THEN [none EXCEPT !.sent = << "kError" >>]
     ELSE IF ~valid
     THEN [ranged EXCEPT !.sent = << "kProcError" >>]
     ELSE [ranged EXCEPT !.done = TRUE,
             !.sent = << IF fMaxNEntries[w] = fProcessedEntries[w] + finish - range.start
                         THEN "kProcResult" ELSE "kIdling" >>]

\* the numbers a client puts in a message of this code: the count of ranges
\* given out so far, or the index of a file of the list
Arguments(code) ==
  IF code = "kProcRange" THEN 0..fNWorkers * Len(fFileNames) - 1
  ELSE IF code = "kProcFile" THEN 0..Len(fFileNames) - 1
  ELSE IF code = "kProcTree" THEN 0..fNWorkers - 1
  ELSE {0}

\* TPoolProcessor::HandleInput(msg) in worker w
HandleInput(w, code, arg) ==
  /\ fS[w].open
  /\ Len(hist) <= MaxMsgs
  /\ \E opened \in BOOLEAN, found \in BOOLEAN, valid \in BOOLEAN :
       LET r == IF code \in {"kProcRange", "kProcFile", "kProcTree"}
                THEN Process(w, code, arg, opened, found, valid)
                ELSE [sent |-> << IF code = "kSendResult" THEN "kProcResult"
                                  ELSE "kError" >>,
                      split |-> FALSE, done |-> FALSE, entries |-> 0,
                      range |-> [start |-> 0, finish |-> 0], finish |-> 0]
       IN /\ r.split => valid \in SetEntriesRange(r.range.start, r.finish, r.entries)
          /\ fS' = [fS EXCEPT ![w].sent = @ \o r.sent]
          /\ IF r.done
             THEN /\ fProcessedEntries' =
                       [fProcessedEntries EXCEPT ![w] = @ + r.finish - r.range.start]
                  /\ fCanReduce' = [fCanReduce EXCEPT ![w] = TRUE]
                  /\ fReducedResult' = [fReducedResult EXCEPT ![w] = @ + 1]
             ELSE UNCHANGED << fProcessedEntries, fCanReduce, fReducedResult >>
          /\ hist' = Append(hist, [fn |-> "HandleInput", w |-> w, code |-> code,
                                   arg |-> arg, sent |-> r.sent, split |-> r.split,
                                   done |-> r.done, entries |-> r.entries,
                                   range |-> r.range, finish |-> r.finish,
                                   nWorkers |-> fNWorkers])
  /\ UNCHANGED << envVars, cfgVars, treeVars, idVars, flagVars, dataVars, cs,
                  fNWorkers, fFileNames, fTree, fMaxNEntries >>

ProcNext ==
  \/ \E w \in Workers : WorkerInit(w)
  \/ \E w \in Workers, code \in PoolCodes : \E arg \in Arguments(code) :
       HandleInput(w, code, arg)

ProcSpec == ProcInit /\ [][ProcNext]_vars

\* ------------------------------------------------------------ trees beyond the unsigned range
\* the same workers on trees of about 2^32 entries (scaled), no limit
BigTrees == 2 ^ UIntBits - 2 .. 2 ^ UIntBits + 2

BigInit == NoBuffer /\ NewProcessors(BigTrees, {0})

BigSpec == BigInit /\ [][ProcNext]_vars

\* ------------------------------------------------------------ properties

\* the calls of SqlWriteObject of the pass so far, those still running their
\* streamer included (they return the id they allocated)
WriteEvents ==
  {[arg |-> hist[i].arg, obj |-> hist[i].obj, cl |-> hist[i].cl,
    objid |-> hist[i].objid, ret |-> hist[i].ret, node |-> hist[i].node,
    streamed |-> hist[i].streamed] : i \in Recs("SqlWriteObject")}
  \cup {[arg |-> cs[i].arg, obj |-> cs[i].obj, cl |-> cs[i].cl,
         objid |-> cs[i].objid, ret |-> Int_t(cs[i].objid), node |-> cs[i].node,
         streamed |-> TRUE] : i \in {j \in 1..Len(cs) : cs[j].fn = "SqlWriteObject"}}

\* the write pass is over
WriteDone == mode = "write" /\ used /\ cs = << >>

\* C1: within one write pass any two distinct non-null addresses written
\* get different object ids.
C1_DistinctIds ==
  mode = "write" =>
    \A e1, e2 \in WriteEvents :
      e1.obj # 0 /\ e2.obj # 0 /\ e1.obj # e2.obj => e1.objid # e2.objid

\* a pass that wrote two different objects, one of them twice
C1_Witness ==
  /\ WriteDone
  /\ \E e1, e2, e3 \in WriteEvents :
       /\ e1.obj # 0 /\ e2.obj # 0 /\ e1.obj # e2.obj
       /\ e1.streamed /\ e2.streamed
       /\ e3.obj = e1.obj /\ ~e3.streamed

\* C2: a later SqlWriteObject call with an address already written in the
\* pass returns the id of the first call, leaves a pointer node carrying that
\* id and does not run the streamer again.
C2_SecondWriteIsReference ==
  mode = "write" =>
    \A e1, e2 \in WriteEvents :
      e1.obj # 0 /\ e1.obj = e2.obj /\ e1.node < e2.node =>
        /\ e2.objid = e1.objid
        /\ e2.ret = e1.ret
        /\ ~e2.streamed
        /\ nodes[e2.node].type = "kSqlPointer"
        /\ nodes[e2.node].value = e1.objid

\* an object written a second time while its own streamer runs (it points
\* to itself) and a third time after another object was written
C2_Witness ==
  /\ WriteDone
  /\ \E e1, e2, e3 \in WriteEvents :
       /\ e1.obj # 0 /\ e1.streamed
       /\ e2.obj = e1.obj /\ e3.obj = e1.obj
       /\ e1.node < e2.node /\ e2.node < e3.node

\* C4: SqlWriteObject with a null object or a null class returns 0, leaves
\* a pointer node carrying 0, and changes neither the registry nor the id
\* counter; no streamer runs for it.
C4_NullWrite ==
  mode = "write" =>
    /\ \A i \in Recs("SqlWriteObject") :
         hist[i].arg = 0 \/ hist[i].cl = "" =>
           /\ hist[i].ret = 0
           /\ ~hist[i].streamed
           /\ nodes[hist[i].node].type = "kSqlPointer"
           /\ nodes[hist[i].node].value = 0
           /\ hist[i].mapOut = hist[i].mapIn
           /\ hist[i].counterOut = hist[i].counterIn
    /\ \A i \in 1..Len(cs) :
         cs[i].fn = "SqlWriteObject" => cs[i].arg # 0 /\ cs[i].cl # ""

\* a null pointer member was written while the registry held an object
C4_Witness ==
  /\ mode = "write"
  /\ \E i \in Recs("SqlWriteObject") :
       hist[i].arg = 0 /\ hist[i].depth > 0 /\ hist[i].mapIn.tab # {}

\* the objects of the written tree, in the order they were met
ObjectNodes ==
  SelectSeq([k \in 1..Len(nodes) |-> k], LAMBDA k : nodes[k].type = "kSqlObject")

\* C6 as stated: whatever the base id, no non-null object is given, or
\* found again under, id 0.
C6_ZeroReservedAnyBase ==
  mode = "write" => \A e \in WriteEvents : e.obj # 0 => e.objid # 0

\* C6, with the base id at least 1: no non-null object is given, or found
\* again under, id 0, and every pointer node carrying 0 was written for a
\* null object.
C6_ZeroReserved ==
  mode = "write" /\ used /\ fFirstObjId >= 1 =>
    \A e \in WriteEvents :
      /\ e.obj # 0 => e.objid # 0 /\ e.ret # 0
      /\ nodes[e.node].value = 0 => e.obj = 0

\* with base 1 or more, an object was written and found again, and a null
\* pointer was written
C6_Witness ==
  /\ WriteDone
  /\ fFirstObjId >= 1
  /\ \E e1, e2, e3 \in WriteEvents :
       /\ e1.obj # 0 /\ e1.streamed
       /\ e2.obj = e1.obj /\ ~e2.streamed
       /\ e3.obj = 0

\* C7: the k-th new object of a write pass gets id base + k - 1, the ids
\* given are base .. base + n - 1, and the id counter never decreases
\* during the pass.
C7_MonotoneIds ==
  /\ [](mode = "write" /\ used =>
          /\ \A k \in 1..Len(ObjectNodes) :
               nodes[ObjectNodes[k]].value = fFirstObjId + k - 1
          /\ fObjIdCounter = fFirstObjId + Len(ObjectNodes))
  /\ [][mode = "write" /\ used /\ used' => fObjIdCounter' >= fObjIdCounter]_vars

\* a pass from a base above zero that met two new objects
C7_Witness ==
  /\ WriteDone
  /\ fFirstObjId >= 1
  /\ Len(ObjectNodes) >= 2

\* the read pass is over
ReadDone == mode = "read" /\ used /\ cs = << >>

\* reference paths from the root: the pointer members followed, in order
Paths == UNION {[1..n -> 1..2] : n \in 0..NObj}

\* address a path from address a leads to before the write (0: null)
RECURSIVE HeapAt(_, _)
HeapAt(a, p) ==
  IF a <= 0 THEN 0
  ELSE IF p = << >> THEN a
  ELSE HeapAt(heap[a][Head(p)], Tail(p))

\* instance a path from instance i leads to after the read (0: null)
RECURSIVE ReadAt(_, _)
ReadAt(i, p) ==
  IF i <= 0 THEN 0
  ELSE IF p = << >> THEN i
  ELSE ReadAt(rheap[i].ptr[Head(p)], Tail(p))

\* the key read is the one the objects at hand were written to, unharmed
RoundTrip == ReadDone /\ store.key >= 0 /\ ~store.damaged

\* two references agree after the read exactly when they agreed before the write
SameAliasing ==
  \A p, q \in Paths :
    (HeapAt(store.root, p) = HeapAt(store.root, q))
      <=> (ReadAt(Last(hist).ret, p) = ReadAt(Last(hist).ret, q))

\* C3 as stated: whatever the base id of the write and the read, the graph
\* read back has the aliasing of the graph written.
C3_RoundTripAnyBase == RoundTrip => SameAliasing

\* C3, with the base id at least 1: the graph read back has the aliasing of
\* the graph written.
C3_RoundTrip == RoundTrip /\ store.key >= 1 => SameAliasing

\* a graph with a shared object, a reference back to the root and a null
\* pointer came back
C3_Witness ==
  /\ RoundTrip
  /\ store.key >= 1
  /\ store.root = 1
  /\ heap[1][1] = 2 /\ heap[1][2] = 2 /\ heap[2][1] = 1
  /\ Len(rheap) = 2

\* the calls of SqlReadObject that went on to SqlReadObjectDirect, the
\* running ones included: the ids they were made for
DirectIds ==
  {hist[i].objid : i \in {j \in Recs("SqlReadObjectDirect") : hist[j].via = "SqlReadObject"}}
  \cup {cs[i].objid : i \in {j \in 1..Len(cs) :
                               cs[j].fn = "SqlReadObjectDirect" /\ cs[j].via = "SqlReadObject"}}

\* C5: SqlReadObject on reference value 0 gives a null instance and leaves
\* the registry as it was, for a column value and for a raw value alike.
C5_NullRead ==
  mode = "read" =>
    /\ \A i \in Recs("SqlReadObject") :
         hist[i].token = 0 => hist[i].ret = 0 /\ hist[i].mapOut = hist[i].mapIn
    /\ 0 \notin DirectIds

\* value 0 was read from a column and from raw data, the registry holding
\* an object both times
C5_Witness ==
  /\ mode = "read"
  /\ \E i, j \in Recs("SqlReadObject") :
       /\ hist[i].token = 0 /\ hist[i].blob /\ hist[i].flagIn = 0
       /\ hist[j].token = 0 /\ ~hist[j].blob /\ hist[j].flagIn = 0
       /\ hist[i].mapIn.tab # {} /\ hist[j].mapIn.tab # {}

\* C8: once the error flag is set, no call on the buffer before the next
\* SqlWriteAny / SqlReadAny clears it.
C8_StickyFlag ==
  [][fErrorFlag # 0 /\ used /\ used' => fErrorFlag' # 0]_vars

\* calls were made with the flag set, and it is still set
C8_Witness ==
  /\ fErrorFlag # 0
  /\ \E i, j \in 1..Len(hist) :
       /\ i # j
       /\ hist[i].fn = "SqlReadBasic" /\ hist[i].flagIn # 0
       /\ hist[j].fn = "SqlReadObject" /\ hist[j].flagIn # 0

\* C9 as stated: in a read pass, a call made with the error flag set gives
\* a default result (0 from a basic read and from ReadVersion, no object
\* from SqlReadObject) and moves no data cursor.
C9_DefaultAfterError ==
  mode = "read" =>
    \A i \in 1..Len(hist) :
      hist[i].flagIn # 0 =>
        /\ hist[i].fn \in {"SqlReadBasic", "ReadVersion"} => hist[i].ret = 0
        /\ hist[i].fn = "SqlReadObject" =>
             hist[i].ret = 0 /\ hist[i].mapOut = hist[i].mapIn
        /\ hist[i].datasOut = hist[i].datasIn

\* C10 as stated: SqlWriteObject, SqlReadObjectDirect and the array calls
\* return with the current node they were entered with, and after
\* SqlWriteAny / SqlReadAny the stack is empty.
C10_BalancedStack ==
  /\ \A i \in 1..Len(hist) :
       hist[i].fn \in {"SqlWriteObject", "SqlReadObjectDirect",
                       "WriteFastArray", "ReadFastArray"} =>
         hist[i].stkOut = hist[i].stkIn
  /\ used /\ cs = << >> => fStk = 0

\* C11: every lookup failure during a read leaves the error flag set when the
\* failing operation returns: here, every SqlReadObjectDirect call that gave
\* up on a lookup (object info, class, table descriptor, raw data) returns
\* with fErrorFlag non-zero
C11_LookupFailureSetsFlag ==
  \A i \in Recs("SqlReadObjectDirect") : hist[i].fail # "" => hist[i].flagOut # 0

\* ------------------------------------------------------------ arrays
\* the array written in the pass, and the record of its write
ArrWritten == Len(hist) >= 2 /\ hist[2].fn = "SQLWriteArrayContent"

\* run k of the values a write emitted: value, start index and length
RunOf(e, k) == [value |-> e[k].value, start |-> e[k].index[1],
                length |-> e[k].index[2] - e[k].index[1] + 1]

\* C12: with fCompressLevel > 0 the array write emits runs (value, start,
\* length) in increasing start order that are maximal spans of equal
\* consecutive values: the first starts at 0, each starts where the previous
\* one ended, lengths are >= 1 and sum to n, adjacent runs carry different
\* values; [1,1,1,2,2,3] gives (1,0,3), (2,3,2), (3,5,1)
C12_CompressedRuns ==
  (ArrWritten /\ hist[2].level > 0) =>
    LET A == hist[2].arr
        e == hist[2].emitted
        R(k) == RunOf(e, k)
    IN /\ \A k \in 1..Len(e) :
            /\ e[k].type = "kSqlValue"
            /\ R(k).length >= 1
            /\ R(k).start = IF k = 1 THEN 0 ELSE R(k - 1).start + R(k - 1).length
            /\ \A i \in R(k).start..(R(k).start + R(k).length - 1) :
                 i + 1 <= Len(A) /\ A[i + 1] = R(k).value
            /\ k > 1 => R(k).value # R(k - 1).value
       /\ (A = << >>) = (e = << >>)
       /\ e # << >> => R(Len(e)).start + R(Len(e)).length = Len(A)
       /\ A = << 1, 1, 1, 2, 2, 3 >> =>
            [k \in 1..Len(e) |-> R(k)] =
              << [value |-> 1, start |-> 0, length |-> 3],
                 [value |-> 2, start |-> 3, length |-> 2],
                 [value |-> 3, start |-> 5, length |-> 1] >>

C12_Witness ==
  /\ ArrWritten
  /\ hist[2].level > 0
  /\ hist[2].arr = << 1, 1, 1, 2, 2, 3 >>
  /\ Len(hist[2].emitted) = 3

\* the array was read back in the pass
ArrReadBack == Len(hist) = 3 /\ hist[3].fn = "SQLReadArrayContent"

\* C13: run-length round trip: decoding (SQLReadArrayCompress) the run list
\* that encoding A (SQLWriteArrayCompress) produced gives an array equal to A
\* element by element, and the error flag stays unset
C13_RunLengthRoundTrip ==
  (ArrReadBack /\ ~store.damaged /\ hist[2].level > 0 /\ IsBlobData(hist[3].dataIn)) =>
    /\ Len(hist[3].arrOut) = Len(hist[1].arr)
    /\ \A i \in 1..Len(hist[1].arr) : hist[3].arrOut[i] = hist[1].arr[i]
    /\ hist[3].flagOut = 0
    /\ fErrorFlag = 0

C13_Witness ==
  /\ ArrReadBack
  /\ ~store.damaged
  /\ hist[2].level > 0
  /\ IsBlobData(hist[3].dataIn)
  /\ hist[1].arr = << 1, 1, 1, 2, 2, 3 >>
  /\ hist[3].arrOut = << 1, 1, 1, 2, 2, 3 >>
  /\ Len(hist[3].dataIn.raw) = 3

\* C14: with fCompressLevel = 0 the write of an array of n elements emits
\* exactly n values, one per index in index order, each with run length 1
\* even when neighbours are equal; reading them back takes one value per
\* index in order and reproduces the array
C14_NoncompressedPositional ==
  /\ (ArrWritten /\ hist[2].level = 0) =>
       LET A == hist[2].arr
           e == hist[2].emitted
       IN /\ Len(e) = Len(A)
          /\ \A k \in 1..Len(e) :
               /\ e[k].type = "kSqlValue"
               /\ e[k].value = A[k]
               /\ e[k].index = << k - 1, k - 1 >>
  /\ (ArrReadBack /\ hist[2].level = 0 /\ ~store.damaged) =>
       /\ hist[3].arrOut = hist[1].arr
       /\ hist[3].flagOut = 0
       /\ hist[3].dataOut.pos = hist[3].dataIn.pos + Len(hist[1].arr)

C14_Witness ==
  /\ ArrReadBack
  /\ hist[2].level = 0
  /\ ~store.damaged
  /\ ~IsBlobData(hist[3].dataIn)
  /\ hist[1].arr = << 1, 1, 1, 2, 2, 3 >>
  /\ Len(hist[2].emitted) = 6
  /\ hist[3].arrOut = << 1, 1, 1, 2, 2, 3 >>

\* the names met by a compressed read of size n that starts at value k of
\* raw with expected index e: where and why the reading of names ends
RECURSIVE TagWalk(_, _, _, _)
TagWalk(raw, k, e, n) ==
  IF e >= n THEN [stop |-> "done", k |-> k, e |-> e]
  ELSE IF k > Len(raw) \/ raw[k].index = << >>
  THEN [stop |-> "untagged", k |-> k, e |-> e]
  ELSE IF ~(raw[k].index[1] = e /\ raw[k].index[2] >= raw[k].index[1]
            /\ raw[k].index[2] < n)
  THEN [stop |-> "bad", k |-> k, e |-> e]
  ELSE TagWalk(raw, k + 1, raw[k].index[2] + 1, n)

\* C15: in a compressed array read a run tag [first..last] (or [first]) is
\* accepted only if first is the expected index, last >= first and
\* last < array size; any other tag sets the error flag and stops the
\* reconstruction at once: no element at or beyond the expected index is
\* written from that run, and the array frame is still popped
C15_BadRunTag ==
  (ArrReadBack /\ IsBlobData(hist[3].dataIn)) =>
    LET r == hist[3]
        n == Len(r.arrIn)
        w == TagWalk(r.dataIn.raw, r.dataIn.pos, 0, n)
    IN /\ r.stkOut = r.stkIn
       /\ fStk = r.stkIn
       /\ w.stop = "bad" =>
            /\ r.flagOut # 0
            /\ \A i \in w.e..(n - 1) : r.arrOut[i + 1] = r.arrIn[i + 1]
            /\ r.dataOut.pos = w.k
       /\ w.stop = "done" =>
            /\ r.flagOut = 0
            /\ r.dataOut.pos = w.k
       /\ \A k \in r.dataIn.pos..(w.k - 1) :
            \A i \in r.dataIn.raw[k].index[1]..r.dataIn.raw[k].index[2] :
              r.arrOut[i + 1] = r.dataIn.raw[k].value

C15_Witness ==
  /\ ArrReadBack
  /\ IsBlobData(hist[3].dataIn)
  /\ LET r == hist[3]
         w == TagWalk(r.dataIn.raw, r.dataIn.pos, 0, Len(r.arrIn))
     IN /\ w.stop = "bad"
        /\ w.e > 0
        /\ r.dataIn.raw[w.k].index[2] < r.dataIn.raw[w.k].index[1]
        /\ r.flagOut = 1
        /\ r.stkOut = r.stkIn

\* ------------------------------------------------------------ versions
\* record i is the first ReadVersion the streamer of its instance made
FirstReadVersion(i) ==
  /\ hist[i].fn = "ReadVersion"
  /\ \A k \in 1..(i - 1) :
       hist[k].fn = "ReadVersion" => hist[k].inst # hist[i].inst

\* the version the object info list of the pass records for objid
InfoVersion(objid) == SqlObjectInfo(objid, fObjectsInfos, fFirstObjId).version

C17_ReadVersionSource ==
  \A i \in Recs("ReadVersion") :
    LET r == hist[i]
        d == r.datasIn[r.curIn]
        tagged == r.curIn # 0 /\ d.blob /\ d.pos >= 1 /\ d.pos <= Len(d.raw)
                  /\ d.raw[d.pos].type = "Version"
    IN IF r.rvbIn >= 0
       THEN /\ r.ret = r.rvbIn
            /\ r.rvbOut = -1
            /\ r.datasOut = r.datasIn
            /\ r.flagOut = r.flagIn
       ELSE IF tagged
       THEN /\ r.ret = d.raw[d.pos].value
            /\ r.datasOut = [r.datasIn EXCEPT ![r.curIn].pos = d.pos + 1]
            /\ r.rvbOut = -1
            /\ r.flagOut = r.flagIn
       ELSE /\ r.ret = 0
            /\ r.flagOut # 0
            /\ r.datasOut = r.datasIn
            /\ r.rvbOut = -1

\* a deposit was consumed, the next call read a tagged value, and a later
\* call found neither
C17_Witness ==
  \E i, j, k \in Recs("ReadVersion") :
    /\ i < j
    /\ hist[i].rvbIn >= 0
    /\ hist[j].rvbIn < 0
    /\ hist[j].datasOut # hist[j].datasIn
    /\ hist[j].ret # hist[i].ret
    /\ hist[k].rvbIn < 0
    /\ hist[k].datasOut = hist[k].datasIn
    /\ hist[k].flagIn = 0
    /\ hist[k].flagOut = 1

\* ------------------------------------------------------------ pools
\* the requests of the pass so far that called GetNormalClassDataAll for sqlinfo
Fetches(sqlinfo) ==
  {i \in Recs("SqlObjectData") : hist[i].sqlinfo = sqlinfo /\ hist[i].fetched}

\* C18: pool reuse: over any sequence of SqlObjectData requests in one read
\* pass the bulk fetch (GetNormalClassDataAll) is issued at most once per
\* class/version table descriptor; every later request for the descriptor
\* is served from the cached pool without a new query
C18_FetchOncePerDescriptor ==
  \A sqlinfo \in Classes : Cardinality(Fetches(sqlinfo)) <= 1

\* record i is a WorkWithClass whose request met a cached pool without a
\* row for the object id
MissingRow(i) ==
  /\ hist[i].fn = "WorkWithClass"
  /\ hist[i].request
  /\ IsClassTableExist(hist[i].cl)
  /\ PoolOf(hist[i].poolsOut, hist[i].cl) # {}
  /\ hist[i].objid \in store.gone

\* C19: missing row: when the cached pool of a class with a class table has
\* no row for the requested object id, SqlObjectData returns none without
\* creating an object data cursor, and the calling WorkWithClass sets the
\* error flag and leaves the current data cursor and the object data
\* attached to the frame unchanged
C19_MissingRow ==
  \A i \in Recs("WorkWithClass") :
    MissingRow(i) =>
      /\ hist[i].datasOut = hist[i].datasIn
      /\ hist[i].flagOut # 0
      /\ hist[i].curOut = hist[i].curIn
      /\ hist[i].objdata = 0

C19_Witness ==
  \E i \in Recs("WorkWithClass") :
    /\ MissingRow(i)
    /\ hist[i].flagIn = 0
    /\ hist[i].flagOut = 1
    /\ hist[i].fetched

\* ------------------------------------------------------------ frame stack
\* the IncrementLevel calls before record i that pushed a frame, less the
\* DecrementLevel calls before it
OpenLevels(i) ==
  Cardinality({k \in 1..(i - 1) : hist[k].fn = "IncrementLevel" /\ hist[k].pushed})
  - Cardinality({k \in 1..(i - 1) : hist[k].fn = "DecrementLevel"})

\* C20: structural underflow is an error: a pop attempted when no frame is
\* on the stack (PopStack with an empty stack, DecrementLevel without a
\* matching push) sets the sticky error flag
C20_UnderflowSetsFlag ==
  \A i \in 1..Len(hist) :
    /\ (hist[i].fn = "PopStack" /\ hist[i].stkIn = 0) => hist[i].flagOut # 0
    /\ (hist[i].fn = "DecrementLevel" /\ OpenLevels(i) <= 0) => hist[i].flagOut # 0

\* ------------------------------------------------------------ references, read
\* the read-side registry map holds an instance for object id objid
Registered(map, objid) ==
  map.alloc /\ objid >= fFirstObjId /\ ExMapGetValue(map, objid - fFirstObjId) # 0

\* the value under the cursor is a reference token: a column value, or a raw
\* value that carries one of the two reference tags
ReferenceToken(r) == ~r.blob \/ r.tag \in {"ObjectPtr", "ObjectRef"}

\* C21: SqlReadObject, when the reference token is a positive id already in
\* the read-side registry, returns the instance registered for the id, moves
\* the cursor by exactly one value, and neither fetches data nor allocates
\* an instance nor runs the streamer again
C21_KnownReference ==
  \A i \in 1..Len(hist) :
    /\ (hist[i].fn = "SqlReadObject" /\ hist[i].flagIn = 0 /\ hist[i].token > 0
        /\ ReferenceToken(hist[i])
        /\ Registered(hist[i].mapIn, hist[i].token)) =>
         /\ hist[i].ret = ExMapGetValue(hist[i].mapIn, hist[i].token - fFirstObjId)
         /\ hist[i].datasOut =
              [hist[i].datasIn EXCEPT ![hist[i].curIn].pos = @ + 1]
         /\ hist[i].instOut = hist[i].instIn
         /\ hist[i].mapOut = hist[i].mapIn
         /\ hist[i].stkOut = hist[i].stkIn
         /\ hist[i].flagOut = 0
    /\ (hist[i].fn = "SqlReadObjectDirect" /\ hist[i].via = "SqlReadObject") =>
         ~Registered(hist[i].mapIn, hist[i].objid)

C21_Witness ==
  \E i \in Recs("SqlReadObject") :
    /\ hist[i].flagIn = 0
    /\ hist[i].token > 0
    /\ Registered(hist[i].mapIn, hist[i].token)
    /\ hist[i].ret # 0
    /\ hist[i].blob

\* every instance whose streamer is running is registered under its id
RunningRegistered ==
  \A k \in 1..Len(cs) :
    cs[k].fn = "SqlReadObjectDirect" =>
      /\ fObjMap.alloc
      /\ ExMapGetValue(fObjMap, cs[k].objid - fFirstObjId) = cs[k].inst

\* the streamer on top is about to read a reference to its own object
SelfReference ==
  /\ InStreamer
  /\ mode = "read"
  /\ PtrOf(CurOp) > 0
  /\ fErrorFlag = 0
  /\ fCurrentData # 0
  /\ HasValue(datas[fCurrentData])
  /\ GetValue(datas[fCurrentData]) = Top.objid
  \* a column value, or a raw value that carries a reference tag
  /\ \/ ~IsBlobData(datas[fCurrentData])
     \/ VerifyDataType(datas[fCurrentData], "ObjectPtr")
     \/ VerifyDataType(datas[fCurrentData], "ObjectRef")
  \* value 0 is also the null pointer: with id 0 (the root of a key with
  \* base 0) only a member that pointed to the root itself counts
  /\ Top.objid = 0 =>
       /\ Len(cs) = 1
       /\ store.root \in Addr
       /\ heap[store.root][PtrOf(CurOp)] = store.root

\* the step resolves the reference to the instance being filled: no new
\* instance, no new streamer call
ResolvedToSelf ==
  /\ Len(cs') = Len(cs)
  /\ Len(rheap') = Len(rheap)
  /\ rheap'[Top.inst].ptr[PtrOf(CurOp)] = Top.inst
  /\ fObjMap' = fObjMap

\* C22 as stated, for any base id: in SqlReadObjectDirect the instance is
\* registered under its id before the streamer runs, so a reference to the
\* object's own id met while its members are read resolves to that same
\* instance without a second materialization and without recursion
C22_SelfReferenceAnyBase ==
  [](mode = "read" => RunningRegistered)
  /\ [][SelfReference => ResolvedToSelf]_vars

\* C22, for object ids above 0: as above
C22_SelfReference ==
  [](mode = "read" => RunningRegistered)
  /\ [][(SelfReference /\ Top.objid > 0) => ResolvedToSelf]_vars

C22_Witness ==
  /\ mode = "read"
  /\ \E k \in 1..Len(rheap) : \E f \in 1..2 : rheap[k].ptr[f] = k
  /\ \E i \in Recs("SqlReadObject") :
       hist[i].token > 0 /\ Registered(hist[i].mapIn, hist[i].token)
       /\ rheap[hist[i].ret].ptr[1] = hist[i].ret

\* ------------------------------------------------------------ token -1
\* the calls of SqlReadObject of the pass that met the reference token -1
\* with the error flag clear
MinusOneReads ==
  {i \in Recs("SqlReadObject") :
     hist[i].flagIn = 0 /\ hist[i].token = -1 /\ ReferenceToken(hist[i])}

\* C23: SqlReadObject, when the reference token is -1, reads the class and
\* version inline and then reads the object: it creates an instance and
\* returns it, it does not merely consume the token and return the handle
\* of the caller unchanged
C23_InlineClassRead ==
  \A i \in MinusOneReads :
    /\ hist[i].instOut > hist[i].instIn
    /\ hist[i].ret # 0

\* ------------------------------------------------------------ cursor save and restore
\* C24: on every return path of SqlReadObjectDirect (after the streamer and
\* on each early return) the current data cursor is the cursor object it was
\* when SqlReadObjectDirect was entered; the streamers of the model make
\* balanced IncrementLevel/DecrementLevel calls
C24_CursorRestored ==
  \A i \in Recs("SqlReadObjectDirect") : hist[i].curOut = hist[i].curIn

\* an object with data of its own was read through a reference met on the
\* cursor of another object, and the call came back
C24_Witness ==
  \E i \in Recs("SqlReadObjectDirect") :
    /\ hist[i].via = "SqlReadObject"
    /\ hist[i].streamed
    /\ hist[i].curIn # 0
    /\ Len(hist[i].datasOut) > Len(hist[i].datasIn)
    /\ hist[i].curOut = hist[i].curIn

\* ------------------------------------------------------------ registry lifetime
\* a step that starts a top-level write call: the only step that creates a
\* node while no streamer runs
TopLevelWrite == mode = "write" /\ cs = << >> /\ Len(nodes') = Len(nodes) + 1

\* C25: at the start of every SqlWriteAny call the registry holds no entry
\* from an earlier top-level call on the same buffer, so the object of the
\* call is written in full (an object node, not a reference to a known id)
C25_FreshRegistry ==
  [][TopLevelWrite =>
       /\ fObjMap.tab = {}
       /\ Last(nodes').type = "kSqlObject"]_vars

\* ------------------------------------------------------------ type tag check
\* the tag of the value under the cursor of read i is the expected one
TagMatches(i) == VerifyDataType(hist[i].datasIn[hist[i].curIn], "Int")

\* C28: SqlReadValue returns a value and moves the cursor by exactly one
\* value only when the tag of the value is the expected type or verification
\* is off; on a mismatch it sets the error flag, returns no value (the
\* caller stores zero) and leaves the cursor where it is
C28_TypeTagCheck ==
  \A i \in Recs("SqlReadBasic") :
    LET r == hist[i]
        moved == r.datasOut = [r.datasIn EXCEPT ![r.curIn].pos = @ + 1]
    IN /\ r.ok => /\ r.flagIn = 0
                  /\ r.curIn # 0
                  /\ r.ignore \/ TagMatches(i)
                  /\ moved
       /\ (r.flagIn = 0 /\ r.curIn # 0 /\ (r.ignore \/ TagMatches(i))) =>
            /\ r.ok
            /\ moved
            /\ r.flagOut = 0
       /\ (r.flagIn = 0 /\ r.curIn # 0 /\ ~r.ignore /\ ~TagMatches(i)) =>
            /\ ~r.ok
            /\ r.ret = 0
            /\ r.flagOut = 1
            /\ r.datasOut = r.datasIn

\* a value of another type was under the cursor, with verification on
C28_Witness ==
  \E i \in Recs("SqlReadBasic") :
    /\ hist[i].flagIn = 0
    /\ hist[i].curIn # 0
    /\ ~hist[i].ignore
    /\ HasValue(hist[i].datasIn[hist[i].curIn])
    /\ ~TagMatches(i)
    /\ hist[i].flagOut = 1

\* ------------------------------------------------------------ one class, bracketed
\* record i is the DecrementLevel that closes the IncrementLevel of record j:
\* only SetStreamerElementNumber calls lie between them
Bracket(j, i) ==
  /\ j < i
  /\ hist[j].fn = "IncrementLevel"
  /\ hist[i].fn = "DecrementLevel"
  /\ \A k \in (j + 1)..(i - 1) : hist[k].fn = "SetStreamerElementNumber"

\* C30: for every argument of IncrementLevel, a null streamer info included,
\* and any number of SetStreamerElementNumber calls in between,
\* DecrementLevel pops exactly the frames pushed since the matching
\* IncrementLevel and leaves the stack as it was before IncrementLevel
C30_LevelBracket ==
  \A i, j \in 1..Len(hist) : Bracket(j, i) => hist[i].stkOut = hist[j].stkIn

\* the same for the IncrementLevel calls that got a streamer info
LevelBracketWithInfo ==
  \A i, j \in 1..Len(hist) :
    (Bracket(j, i) /\ hist[j].pushed) => hist[i].stkOut = hist[j].stkIn


\* the type name ClassMember works with: the member name stands in for a
\* null type name
GivenTypeName(r) == IF r.typeName = Null THEN r.name ELSE r.typeName

\* the member name is null or empty
NoMemberName(r) == r.name = Null \/ r.name = ""

\* the type name names no basic type and, with or without its trailing
\* asterisk, no known class
NoTypeOrClass(r) ==
  /\ GivenTypeName(r) \notin BasicTypes
  /\ GivenTypeName(r) \notin Classes
  /\ Resize(GivenTypeName(r)) \notin Classes

\* the call set the flag and left the frames, the chain flag and the cursor
\* as they were
RefusedMember(r) ==
  /\ r.flagOut = 1
  /\ r.stkOut = r.stkIn
  /\ r.nodesOut = r.nodesIn
  /\ r.chainOut = r.chainIn
  /\ r.curOut = r.curIn
  /\ r.datasOut = r.datasIn

\* C29 as stated: a ClassMember call with a null or empty member name, or
\* with a type name that is no basic type and no known class, sets the error
\* flag and leaves the frame stack, the chain flag and the data cursor
\* unchanged.  The type name "raw:data" is no basic type and no class, and
\* the call opens an element frame for it.
C29_InvalidMemberAnyType ==
  \A i \in Recs("ClassMember") :
    NoMemberName(hist[i]) \/ NoTypeOrClass(hist[i]) => RefusedMember(hist[i])

\* C29, with the exception of the type name "raw:data" given with a member
\* name: a ClassMember call with a null or empty member name, or with a type
\* name other than "raw:data" that is no basic type and no known class, sets
\* the error flag and leaves the frame stack, the chain flag and the data
\* cursor unchanged.
C29_InvalidMember ==
  \A i \in Recs("ClassMember") :
    \/ NoMemberName(hist[i])
    \/ NoTypeOrClass(hist[i]) /\ GivenTypeName(hist[i]) # "raw:data"
    => RefusedMember(hist[i])

\* a member of an unknown class was refused while the frame of the member
\* before it was open
C29_Witness ==
  \E i \in Recs("ClassMember") :
    /\ ~NoMemberName(hist[i])
    /\ NoTypeOrClass(hist[i])
    /\ GivenTypeName(hist[i]) # "raw:data"
    /\ hist[i].stkIn # 0
    /\ hist[i].nodesIn[hist[i].stkIn].type = "kSqlCustomElement"
    /\ hist[i].flagIn = 0
    /\ RefusedMember(hist[i])


\* the nodes a call added to the tree
Added(r) == SubSeq(r.nodesOut, Len(r.nodesIn) + 1, Len(r.nodesOut))

\* the values a call added, in the order it added them
AddedValues(r) == SelectSeq(Added(r), LAMBDA nd : nd.type = "kSqlValue")

NoZeroByte(c) == \A k \in 1..Len(c) : c[k] # 0

\* the call stored the array as one string value
StoredAsString(r) ==
  /\ Len(Added(r)) = 1
  /\ Added(r)[1].type = "kSqlValue"
  /\ Added(r)[1].pointer = "CharStar"
  /\ Added(r)[1].value = r.arr

\* the call stored the array value by value
StoredPerElement(r) ==
  /\ Len(AddedValues(r)) = r.n
  /\ \A k \in 1..r.n : /\ AddedValues(r)[k].pointer # "CharStar"
                       /\ AddedValues(r)[k].value = r.arr[k]

\* a string that was stored is read back as the characters written
ReadBackAsWritten ==
  \A i \in Recs("WriteFastArray"), j \in Recs("ReadFastArray") :
    StoredAsString(hist[i]) => /\ hist[j].string
                               /\ hist[j].flagOut = 0
                               /\ hist[j].arr = hist[i].arr

CharWrites ==
  {i \in Recs("WriteFastArray") : Members.kind = "Char"}

\* C26 as stated: WriteFastArray stores a character array of n elements as
\* one string value exactly when n > 0, the array has no zero byte and the
\* array is not a member chain; in every other case it stores it per element;
\* and a stored string is read back as the same n characters.
C26_CharArrayNoChain ==
  /\ \A i \in CharWrites :
       /\ StoredAsString(hist[i]) <=>
            hist[i].n > 0 /\ NoZeroByte(hist[i].arr) /\ Len(Members.layout) = 1
       /\ ~StoredAsString(hist[i]) => StoredPerElement(hist[i])
  /\ ReadBackAsWritten

\* what holds of the call: the chain flag at the time of the call, and not
\* the member list, decides with n and the zero bytes whether the array is
\* stored as one string
CharArrayAsStringByFlag ==
  /\ \A i \in CharWrites :
       /\ StoredAsString(hist[i]) <=>
            hist[i].n > 0 /\ NoZeroByte(hist[i].arr) /\ ~hist[i].chainIn
       /\ ~StoredAsString(hist[i]) => StoredPerElement(hist[i])
  /\ ReadBackAsWritten

\* a string of two characters or more was stored and read back
StringReadBack ==
  \E i \in CharWrites, j \in Recs("ReadFastArray") :
    /\ hist[i].n >= 2
    /\ StoredAsString(hist[i])
    /\ hist[j].string
    /\ hist[j].arr = hist[i].arr

\* C27: when several members are streamed by one fast-array call, the frames
\* the reading call opens are those the writing call opened, in the same
\* order.
C27_ChainFrames ==
  \A i \in Recs("WriteFastArray"), j \in Recs("ReadFastArray") :
    Len(Members.layout) > 1 => hist[j].frames = hist[i].frames

\* the same for the chains whose first member has two values or more
ChainFramesAfterLongMember ==
  \A i \in Recs("WriteFastArray"), j \in Recs("ReadFastArray") :
    Len(Members.layout) > 1 /\ Members.layout[1] >= 2
    => hist[j].frames = hist[i].frames

\* the writing call opens a frame for every member after the first
WriteFramesOfChain ==
  \A i \in Recs("WriteFastArray") :
    Len(Members.layout) > 1 /\ ~hist[i].string
    => hist[i].frames = [k \in 1..Len(Members.layout) - 1 |-> k + 1]


\* C31: one pool per descriptor: every entry of the pools map is keyed by the
\* descriptor its pool was created for, no descriptor has two pools, and no
\* request of SqlObjectData takes the "Missmatch in pools map" branch.
C31_OnePoolPerDescriptor ==
  /\ \A q \in fPoolsMap : q.key = q.sqlinfo
  /\ \A q1, q2 \in fPoolsMap : q1.key = q2.key => q1 = q2
  /\ \A i \in Recs("SqlObjectData") : ~hist[i].mismatch

\* the map holds the pools of two descriptors and a request was served from
\* a pool made by an earlier request
C31_Witness ==
  /\ Cardinality(fPoolsMap) >= 2
  /\ \E i \in Recs("SqlObjectData") :
       /\ ~hist[i].fetched
       /\ PoolOf(hist[i].poolsIn, hist[i].sqlinfo) # {}
       /\ hist[i].data # 0


\* the frames of members opened under the frame of a streamer info
MemberFrames ==
  {k \in 1..Len(nodes) :
     /\ GetElement(nodes, k)
     /\ GetStreamerInfo(nodes, nodes[k].parent) # ""}

\* C32: the frame SetStreamerElementNumber opens for a member of streamer
\* info I while the frame of I is the current one is an indexed Element frame
\* that records the index of the member in the member list of I, not a
\* CustomElement frame.
C32_IndexedElementFrame ==
  \A k \in MemberFrames :
    /\ nodes[k].type = "kSqlElement"
    /\ nodes[k].value >= 0


\* the positions of the list whose entry has id objid
EntriesOf(objid) ==
  {j \in 1..Len(fObjectsInfos.list) : fObjectsInfos.list[j].objid = objid}

\* the answer a scan of the list from its start gives
ScanAnswer(objid) ==
  LET pos == ScanInfo(fObjectsInfos.list, objid, 1)
  IN IF objid < 0 \/ ~fObjectsInfos.alloc \/ pos = 0 THEN NoInfo
     ELSE [ok |-> TRUE, cl |-> fObjectsInfos.list[pos].cl,
           version |-> fObjectsInfos.list[pos].version]

\* the list position the id stands for is not that of its entry
OffPosition(objid) ==
  LET shift == objid - fFirstObjId
  IN ~(/\ shift >= 0
       /\ shift < Len(fObjectsInfos.list)
       /\ fObjectsInfos.list[shift + 1].objid = objid)

\* C33: SqlObjectInfo returns true exactly when the id is >= 0, a list is
\* loaded and some entry of the list has the id; class name and version are
\* those of an entry with the id; and the answer is that of the linear scan,
\* whatever the order of the list.
C33_ObjectInfo ==
  \A i \in Recs("SqlObjectInfo") :
    LET r == hist[i]
    IN /\ r.ret.ok <=> /\ r.objid >= 0
                       /\ fObjectsInfos.alloc
                       /\ EntriesOf(r.objid) # {}
       /\ r.ret.ok => \E j \in EntriesOf(r.objid) :
                        /\ r.ret.cl = fObjectsInfos.list[j].cl
                        /\ r.ret.version = fObjectsInfos.list[j].version
       /\ r.ret = ScanAnswer(r.objid)

\* an id was found by the scan in a list that is not in the order of the ids
C33_Witness ==
  \E i \in Recs("SqlObjectInfo") :
    /\ hist[i].ret.ok
    /\ Len(fObjectsInfos.list) >= 2
    /\ OffPosition(hist[i].objid)
    /\ hist[i].ret.version # GetClassVersion(hist[i].ret.cl)


\* a pass through the body of a loop
LoopPass == ~cs[1].left /\ cs[1].indx < Len(rheap[1].arr)

\* C34: the array read loops terminate for every array size and every
\* sequence of stored run tags: every pass through the body of a loop either
\* leaves the loop with the error flag set or advances the index by at least
\* one, the loop is left in the end, and when it is left with the flag clear
\* the index equals the array size.
C34_LoopsTerminate ==
  /\ [][LoopPass => \/ cs'[1].left /\ fErrorFlag' = 1
                    \/ ~cs'[1].left /\ cs'[1].indx >= cs[1].indx + 1]_vars
  /\ <>(cs[1].left)
  /\ [](cs[1].left /\ fErrorFlag = 0 => cs[1].indx = Len(rheap[1].arr))

\* a compressed read of three elements or more went through a run of two or
\* more and was left with the flag clear
C34_Witness ==
  /\ cs[1].left
  /\ fErrorFlag = 0
  /\ IsBlobData(datas[1])
  /\ Len(rheap[1].arr) >= 3
  /\ cs[1].indx = Len(rheap[1].arr)
  /\ Len(datas[1].raw) >= 2
  /\ datas[1].pos = 3
  /\ \A k \in 1..2 : datas[1].raw[k].index # << >>
  /\ \E k \in 1..2 : datas[1].raw[k].index[2] > datas[1].raw[k].index[1]


\* the reads that took a stored string
StringReads ==
  {i \in Recs("ReadFastArray") : hist[i].string /\ hist[i].flagOut = 0}

\* C35: ReadFastArray for a character array of n elements stored as one
\* string never copies more than n bytes into the destination and never
\* reads beyond the end of the stored string (its terminating zero), whatever
\* the length of the stored string.
C35_CopyWithinBounds ==
  \A i \in StringReads :
    /\ hist[i].copied <= hist[i].n
    /\ hist[i].copied <= hist[i].buflen + 1


\* C36: the value SqlWriteObject returns equals the id recorded on the node
\* it emitted, for every id of the Long64_t id space, those above the largest
\* Int_t included.
C36_ReturnedId ==
  \A i \in Recs("SqlWriteObject") : hist[i].ret = nodes[hist[i].node].value

\* the same for the ids an Int_t can hold
ReturnedIdWithinInt ==
  \A i \in Recs("SqlWriteObject") :
    nodes[hist[i].node].value <= kMaxInt => hist[i].ret = nodes[hist[i].node].value


\* ------------------------------------------------------------ pool workers
\* the requests that came to the split of the entries of their tree
RangeRequests ==
  {i \in Recs("HandleInput") :
     hist[i].split /\ hist[i].code \in {"kProcRange", "kProcTree"}}

\* the ranges of a request are those of the split of E entries over W workers
SplitOf(i) ==
  LET E == hist[i].entries
      W == hist[i].nWorkers
      r == hist[i].arg % W
  IN /\ hist[i].range.start = r * (E \div W)
     /\ hist[i].range.finish = IF r < W - 1 THEN (r + 1) * (E \div W) ELSE E
     /\ \A e \in 0..E - 1 :
          Cardinality({n \in 0..W - 1 :
                         LET g == EntryRange(hist[i].code, E, n, W)
                         IN g.start <= e /\ e < g.finish}) = 1

\* C37: for a tree of E entries and W workers a range-processing request
\* takes [r*(E div W), (r+1)*(E div W)) for the range numbers r < W-1 and
\* [(W-1)*(E div W), E) for the last one, and the ranges of the numbers
\* 0 .. W-1 together hold every entry of [0, E) exactly once.
C37_EntryRangeSplit == \A i \in RangeRequests : SplitOf(i)

\* the same for the trees whose number of entries an unsigned can hold
EntryRangeSplitWithinUnsigned ==
  \A i \in RangeRequests : hist[i].entries < 2 ^ UIntBits => SplitOf(i)


\* f[0] + ... + f[n - 1]
RECURSIVE SumTo(_, _)
SumTo(f, n) == IF n = 0 THEN 0 ELSE f[n - 1] + SumTo(f, n - 1)

\* the workers that went through Init
Started == {w \in Workers : fS[w].open}

\* C38: for every maxEntries and every number W >= 1 of workers the workers
\* 0 .. W-2 get maxEntries div W each from EvalMaxEntries and the last one
\* the rest, and the limits of the W workers sum to exactly maxEntries.
C38_LimitsSumToMaxEntries ==
  /\ \A w \in Started :
       fMaxNEntries[w] =
         IF w < fNWorkers - 1
         THEN MaxEntriesArg \div fNWorkers
         ELSE MaxEntriesArg - (fNWorkers - 1) * (MaxEntriesArg \div fNWorkers)
  /\ Started = Workers => SumTo(fMaxNEntries, fNWorkers) = MaxEntriesArg

\* every worker of a pool of several has taken its share of a limit that
\* does not divide evenly
C38_Witness ==
  /\ fNWorkers >= 2
  /\ Started = Workers
  /\ MaxEntriesArg % fNWorkers # 0
  /\ fMaxNEntries[fNWorkers - 1] > fMaxNEntries[0]


\* C39: with a non-zero global maxEntries the number of entries a worker has
\* processed never exceeds its limit from EvalMaxEntries, and the total of
\* all workers never exceeds maxEntries, also when maxEntries is less than
\* the number of workers and some limits are 0.
C39_WithinLimits ==
  MaxEntriesArg # 0 =>
    /\ \A w \in Started : fProcessedEntries[w] <= fMaxNEntries[w]
    /\ SumTo(fProcessedEntries, fNWorkers) <= MaxEntriesArg

\* the same for the workers whose own limit is not 0
WithinNonZeroLimits ==
  \A w \in Started : fMaxNEntries[w] # 0 => fProcessedEntries[w] <= fMaxNEntries[w]


\* C40: every message HandleInput handles is answered by exactly one message
\* to the client (a result, an idle notice or an error), whatever its code,
\* unknown codes and every failure path of Process included: the worker never
\* leaves the client without a reply.
C40_OneReplyPerMessage ==
  /\ \A i \in Recs("HandleInput") : Len(hist[i].sent) = 1
  /\ \A w \in Workers :
       Len(fS[w].sent) = Cardinality({i \in Recs("HandleInput") : hist[i].w = w})

\* the same for every message but kProcTree in a worker that has no tree
OneReplyWithTree ==
  \A i \in Recs("HandleInput") :
    hist[i].code # "kProcTree" \/ fTree.defined => Len(hist[i].sent) = 1

====
